---- MODULE Spec2Model ----
(***************************************************************************)
(* Alert gating and delivery of the DeFi news bot.                         *)
(*                                                                         *)
(* SignalProcessor.emitAlert is the admission gate (duplicate lookup,      *)
(* global cooldown, category cooldown, category enabled).  An approved     *)
(* alert is published on 'signal:alert'; TelegramBot.sendAlert is the only *)
(* subscriber and runs synchronously inside the publish up to its first    *)
(* await (the Telegram send).  The dedup record is the row that            *)
(* AlertRepository.save inserts after a send has succeeded.                *)
(*                                                                         *)
(* Time is Date.now() scaled down: one tick of `now` is one unit of the    *)
(* configured durations.                                                   *)
(*                                                                         *)
(* KeywordFilter (matchTweet, matchesCategory) and ProtocolRepository      *)
(* (upsert, calculateTvlChange) are modelled on the same state and have    *)
(* specifications of their own, SpecFilter and SpecTvl.  So are the event  *)
(* bus (SpecBus), the collectors (SpecPolling, SpecStream), the tweet and  *)
(* TVL handlers of SignalProcessor (SpecSignal), the DeFiLlama collection  *)
(* with the analysis of the repository it triggers (SpecAnalyze, and       *)
(* SpecCycle on a database that holds rows already), the statements of     *)
(* main() from database.initialize to the shutdown (SpecStartup), and the  *)
(* SettingsRepository (SpecSettings).                                      *)
(***************************************************************************)
EXTENDS Integers, Sequences, FiniteSets, TLC

VARIABLES
  now,                    \* Date.now()
  config,                 \* cachedConfig (alerts, telegram), immutable after load
  lastGlobalAlertTime,    \* SignalProcessor.lastGlobalAlertTime
  lastCategoryAlertTime,  \* SignalProcessor.lastCategoryAlertTime (a Map)
  db,                     \* DatabaseWrapper.db: "open" or "null"
  alerts,                 \* rows of table alerts
  user_settings,          \* rows of table user_settings, by chat_id
  sending,                \* sendAlert invocations suspended in await sendMessage
  tvlAnalysis,            \* input and result of the last TVLAnalyzer.analyze call
  tvlPending,             \* alerts processTVLData has still to hand to emitAlert
  signalAlert,            \* payloads published on 'signal:alert', with their time
  gateLog,                \* the last emitAlert call: its alert, the key isDuplicate
                          \* computed, and what it logged (or that it threw)
  sendCalls,              \* bot.telegram.sendMessage calls made by sendAlert
  deliveryEvents,         \* 'alert:sent' / 'alert:failed' payloads published
  commands,               \* number of chat commands handled so far
  settingsCall,           \* the subscribe / unsubscribe / setPaused call that has
                          \* just returned, with what it returned
  outages,                \* number of times the database handle was lost so far
  nextId,                 \* number of uuidv4() values handed out so far
  keywords,               \* cachedKeywords, immutable after load
  rawTweet,               \* the RawTweet handed to the keyword filter
  tweetMatch,             \* the result of matchTweet(rawTweet), once it was called
  categoryMatch,          \* the last matchesCategory(rawTweet.text, category) call
  tweetSubmitted,         \* whether processTweet(rawTweet) ran, and the alerts it
                          \* handed to emitAlert
  protocol_state,         \* rows of table protocol_state, by slug
  tvlChange,              \* the calculateTvlChange call that has just returned
  upsertLog,              \* the upsert calls made so far, with their Date.now()
  clockSetbacks,          \* number of times the system clock was set back so far
  listeners,              \* the event bus: per channel the handlers subscribed
  busLog,                 \* the on / off / emit calls made on the event bus so far
  collectors,             \* per collector the fields of BaseCollector and its
                          \* position in start / collect
  main                    \* the statement main() is at

vars == <<now, config, lastGlobalAlertTime, lastCategoryAlertTime, db, alerts,
          user_settings, sending, tvlAnalysis, tvlPending, signalAlert, gateLog,
          sendCalls, deliveryEvents, commands, settingsCall, outages, nextId, keywords,
          rawTweet, tweetMatch, categoryMatch, tweetSubmitted, protocol_state,
          tvlChange, upsertLog, clockSetbacks, listeners, busLog, collectors, main>>

\* the state of the alert gate and of the delivery
gateVars == <<config, lastGlobalAlertTime, lastCategoryAlertTime, db, alerts,
              user_settings, sending, tvlAnalysis, tvlPending, signalAlert, gateLog,
              sendCalls, deliveryEvents, commands, settingsCall, outages, nextId>>

\* the state of the keyword filter
filterVars == <<keywords, rawTweet, tweetMatch, categoryMatch, tweetSubmitted>>

\* the state of the protocol repository
protocolVars == <<protocol_state, tvlChange, upsertLog, clockSetbacks>>

\* the state of the event bus
busVars == <<listeners, busLog>>

\* the state of the collectors and of main(), which starts them
collectorVars == <<collectors, main>>

(***************************************************************************)
(* Bounds                                                                  *)
(***************************************************************************)
MaxAlerts == 2          \* alerts built by EmitAlert and ProcessTVLData in one behaviour
MaxTicks == 4           \* clock ticks in one behaviour
MaxCommands == 1        \* chat commands in one behaviour
MaxDbOutages == 1       \* times the database handle is lost in one behaviour
GlobalCooldownMax == 1  \* the non-zero choice of alerts.globalCooldownMs
CategoryCooldownMax == 2 \* the non-zero choice of categories[c].cooldownMs
DedupWindowMax == 3     \* the non-zero choice of alerts.deduplicationWindowMs
MaxUpserts == 3         \* upsert calls in one behaviour
MaxClockSetbacks == 1   \* times the system clock is set back in one behaviour
Ms24h == 2              \* 24 * 60 * 60 * 1000 on the model's time scale
Ms48h == 3              \* 48 * 60 * 60 * 1000 on the model's time scale
Ms7d == 4               \* 7 * 24 * 60 * 60 * 1000 on the model's time scale
History24hLimit == 2    \* the 288 points kept in tvl_history_24h, scaled down
History7dLimit == 2     \* the 2016 points kept in tvl_history_7d, scaled down
MaxTextLen == 3         \* characters in the text of a tweet
MaxBusCalls == 5        \* on / off / emit calls on the event bus in one behaviour
MaxCollectorCalls == 2  \* start() and stop() calls on one collector in one behaviour
MaxCollections == 2     \* doCollect calls, and tweets streamed, per collector
MaxReconnectAttempts == 2 \* collectors.twitter.maxReconnectAttempts
MaxConnects == 2        \* searchStream calls of the Twitter collector in one behaviour

\* Date.now() at construction: later than 0 by more than any configured duration
StartTime == GlobalCooldownMax + CategoryCooldownMax + DedupWindowMax

(***************************************************************************)
(* Types (core/types/alerts.ts)                                            *)
(***************************************************************************)
ALL_CATEGORIES ==
  <<"INCENTIVE", "TVL_CHANGE", "TOKEN_EVENT", "GOVERNANCE", "SECURITY", "NARRATIVE">>

AlertCategory == {ALL_CATEGORIES[i] : i \in 1..Len(ALL_CATEGORIES)}

AlertPriority == [LOW |-> 1, MEDIUM |-> 2, HIGH |-> 3, CRITICAL |-> 4]

AlertSource == {"DEFILLAMA", "TWITTER", "COINGECKO"}

\* the chats that can send commands
ChatIds == {"chat1", "chat2"}

(***************************************************************************)
(* Inputs: the alerts handed to emitAlert and the categories of commands   *)
(***************************************************************************)
InputCategories == {"TVL_CHANGE", "SECURITY"}

\* titles as createTweetAlert builds them: a template and the author
InputTitles == {<<"SIGNAL - @", "alice">>, <<"SIGNAL - @", "bob">>}

\* metadata as createTweetAlert builds it: key/value pairs in insertion order
InputMetadata ==
  << <<"twitterHandle", <<"alice">> >>, <<"tweetId", <<"1">> >>,
     <<"tags", <<"signal", "priority">> >> >>

\* the fields the deduplication key does not read differ from alert to alert
InputPriority(id) == 1 + (id % 4)

InputSummary(id) == <<"text", id>>

InputDetails(id) == <<"rawContent", id>>

\* results of getSignificantChanges: one entry per protocol, largest change first
LendX == [slug |-> "lendx", name |-> "LendX", changePercent |-> 55]

SwapY == [slug |-> "swapy", name |-> "SwapY", changePercent |-> -120]

InputChanges == {<<>>, <<LendX>>, <<SwapY, LendX>>}

Seq2Set(s) == {s[i] : i \in 1..Len(s)}

Includes(s, x) == x \in Seq2Set(s)

(***************************************************************************)
(* AlertRepository                                                         *)
(***************************************************************************)
RECURSIVE JSONStringify(_)
\* JSON.stringify of a metadata object: members in insertion order
JSONStringify(metadata) ==
  IF metadata = <<>> THEN <<>>
  ELSE <<Head(metadata)[1], ":">> \o Head(metadata)[2] \o <<",">>
         \o JSONStringify(Tail(metadata))

\* sha256(content).digest('hex').substring(0, 32), as a symbolic digest:
\* equal contents give equal digests, different contents different digests
Sha256Hex32(content) == <<"sha256/32">> \o content

\* mutant of generateDeduplicationKey: the alert id is hashed too
generateDeduplicationKey_WithId(alert) ==
  Sha256Hex32(<<alert.category, ":", alert.source, ":">> \o alert.title \o <<":">>
              \o JSONStringify(alert.metadata) \o <<":", alert.id>>)

generateDeduplicationKey(alert) ==
  Sha256Hex32(<<alert.category, ":", alert.source, ":">> \o alert.title \o <<":">>
              \o JSONStringify(alert.metadata))

\* mutant of isDuplicate: the window start itself still counts as inside
isDuplicate_Inclusive(alert) ==
  LET deduplicationKey == generateDeduplicationKey(alert)
      windowStart == now - config.deduplicationWindowMs
  IN \E row \in alerts :
       row.deduplication_key = deduplicationKey /\ row.sent_at >= windowStart

\* SELECT id FROM alerts WHERE deduplication_key = ? AND sent_at > ? LIMIT 1
isDuplicate(alert) ==
  LET deduplicationKey == generateDeduplicationKey(alert)
      windowStart == now - config.deduplicationWindowMs
  IN \E row \in alerts :
       row.deduplication_key = deduplicationKey /\ row.sent_at > windowStart

\* the row AlertRepository.save inserts
AlertRecord(alert, chatId) ==
  [id |-> alert.id, category |-> alert.category, priority |-> alert.priority,
   source |-> alert.source, title |-> alert.title, summary |-> alert.summary,
   details_json |-> alert.details, metadata_json |-> JSONStringify(alert.metadata),
   deduplication_key |-> generateDeduplicationKey(alert),
   sent_at |-> now, chat_id |-> chatId]

\* INSERT INTO alerts fails when the database is closed or the PRIMARY KEY id exists
saveSucceeds(alert) ==
  db = "open" /\ \A row \in alerts : row.id # alert.id

(***************************************************************************)
(* SettingsRepository                                                      *)
(***************************************************************************)
DefaultSettings == [subscribed_categories |-> ALL_CATEGORIES, is_paused |-> FALSE]

\* the table after getOrCreate(chatId)
getOrCreate(us, chatId) ==
  IF chatId \in DOMAIN us THEN us
  ELSE [c \in DOMAIN us \cup {chatId} |-> IF c = chatId THEN DefaultSettings ELSE us[c]]

getSubscribedCategories(us, chatId) == getOrCreate(us, chatId)[chatId].subscribed_categories

isPaused(us, chatId) == getOrCreate(us, chatId)[chatId].is_paused

(***************************************************************************)
(* AlertManager                                                            *)
(***************************************************************************)
shouldReceiveAlert(us, chatId, category) ==
  IF isPaused(us, chatId) THEN FALSE
  ELSE Includes(getSubscribedCategories(us, chatId), category)

(***************************************************************************)
(* TelegramBot.sendAlert                                                   *)
(***************************************************************************)
RECURSIVE sendAlertFrom_NoSubscriptionCheck(_, _, _)
\* mutant of sendAlertFrom: the subscription of the chat is not looked at
sendAlertFrom_NoSubscriptionCheck(alert, i, us) ==
  IF i > Len(config.allowedChatIds) THEN [us |-> us, at |-> 0, threw |-> FALSE]
  ELSE LET chatId == config.allowedChatIds[i] IN
    IF chatId = "" THEN sendAlertFrom_NoSubscriptionCheck(alert, i + 1, us)
    ELSE IF db # "open" THEN [us |-> us, at |-> 0, threw |-> TRUE]
    ELSE IF isPaused(us, chatId)
      THEN sendAlertFrom_NoSubscriptionCheck(alert, i + 1, getOrCreate(us, chatId))
    ELSE [us |-> getOrCreate(us, chatId), at |-> i, threw |-> FALSE]

RECURSIVE sendAlertFrom(_, _, _)
\* The loop of sendAlert from position i of config.allowedChatIds up to its next
\* await: the settings table it leaves (getOrCreate inserts rows), the
\* position `at` of the chat whose sendMessage it is now awaiting (0 when the
\* loop is over), and whether a settings lookup threw (database closed).
sendAlertFrom(alert, i, us) ==
  IF i > Len(config.allowedChatIds) THEN [us |-> us, at |-> 0, threw |-> FALSE]
  ELSE LET chatId == config.allowedChatIds[i] IN
    IF chatId = "" THEN sendAlertFrom(alert, i + 1, us)
    ELSE IF db # "open" THEN [us |-> us, at |-> 0, threw |-> TRUE]
    ELSE IF isPaused(us, chatId)
      THEN sendAlertFrom(alert, i + 1, getOrCreate(us, chatId))
    ELSE IF ~Includes(getSubscribedCategories(us, chatId), alert.category)
      THEN sendAlertFrom(alert, i + 1, getOrCreate(us, chatId))
    ELSE [us |-> getOrCreate(us, chatId), at |-> i, threw |-> FALSE]

\* effect of one synchronous stretch of sendAlert starting at position i
SendAlertStep(alert, i) ==
  LET r == sendAlertFrom(alert, i, user_settings) IN
    /\ user_settings' = r.us
    /\ sending' = (sending \ {s \in sending : s.alert = alert})
                    \cup (IF r.at = 0 THEN {} ELSE {[alert |-> alert, at |-> r.at]})
    /\ sendCalls' = sendCalls
                    \cup (IF r.at = 0 THEN {}
                          ELSE {[chatId |-> config.allowedChatIds[r.at], alertId |-> alert.id,
                                 category |-> alert.category]})

(***************************************************************************)
(* SignalProcessor                                                         *)
(***************************************************************************)
\* mutant of lastCategoryTime: one timestamp shared by all categories
lastCategoryTime_Shared(category) == lastGlobalAlertTime

lastCategoryTime(category) ==
  IF category \in DOMAIN lastCategoryAlertTime
  THEN lastCategoryAlertTime[category] ELSE 0

MapSet(m, k, v) == [x \in DOMAIN m \cup {k} |-> IF x = k THEN v ELSE m[x]]

\* mutant of emitAlertOutcome: the global cooldown is not checked
emitAlertOutcome_NoGlobalCooldown(alert) ==
  IF db # "open" THEN "threw"
  ELSE IF isDuplicate(alert) THEN "duplicate"
  ELSE IF now - lastCategoryTime(alert.category)
            < config.categories[alert.category].cooldownMs THEN "category cooldown"
  ELSE IF ~config.categories[alert.category].enabled THEN "category disabled"
  ELSE "emitted"

\* mutant of emitAlertOutcome: the enabled flag is checked before the cooldowns
emitAlertOutcome_EnabledFirst(alert) ==
  IF db # "open" THEN "threw"
  ELSE IF isDuplicate(alert) THEN "duplicate"
  ELSE IF ~config.categories[alert.category].enabled THEN "category disabled"
  ELSE IF now - lastGlobalAlertTime < config.globalCooldownMs THEN "global cooldown"
  ELSE IF now - lastCategoryTime(alert.category)
            < config.categories[alert.category].cooldownMs THEN "category cooldown"
  ELSE "emitted"

\* mutant of emitAlertOutcome: the enabled flag is not checked
emitAlertOutcome_NoEnabledCheck(alert) ==
  IF db # "open" THEN "threw"
  ELSE IF isDuplicate(alert) THEN "duplicate"
  ELSE IF now - lastGlobalAlertTime < config.globalCooldownMs THEN "global cooldown"
  ELSE IF now - lastCategoryTime(alert.category)
            < config.categories[alert.category].cooldownMs THEN "category cooldown"
  ELSE "emitted"

\* the outcome of emitAlert's checks, in the order the code applies them
emitAlertOutcome(alert) ==
  IF db # "open" THEN "threw"
  ELSE IF isDuplicate(alert) THEN "duplicate"
  ELSE IF now - lastGlobalAlertTime < config.globalCooldownMs THEN "global cooldown"
  ELSE IF now - lastCategoryTime(alert.category)
            < config.categories[alert.category].cooldownMs THEN "category cooldown"
  ELSE IF ~config.categories[alert.category].enabled THEN "category disabled"
  ELSE "emitted"

\* mutant of emitAlert: the global timestamp is written before the checks
emitAlert_StampBeforeChecks(alert) ==
  LET outcome == emitAlertOutcome(alert) IN
    /\ gateLog' = [alert |-> alert, key |-> generateDeduplicationKey(alert),
                   outcome |-> outcome]
    /\ lastGlobalAlertTime' = IF outcome = "threw" THEN lastGlobalAlertTime ELSE now
    /\ IF outcome = "emitted"
       THEN /\ lastCategoryAlertTime' = MapSet(lastCategoryAlertTime, alert.category, now)
            /\ signalAlert' = Append(signalAlert, [alert |-> alert, time |-> now])
            /\ SendAlertStep(alert, 1)
       ELSE UNCHANGED <<lastCategoryAlertTime, signalAlert, user_settings, sending,
                        sendCalls>>

emitAlert(alert) ==
  LET outcome == emitAlertOutcome(alert) IN
    /\ gateLog' = [alert |-> alert, key |-> generateDeduplicationKey(alert),
                   outcome |-> outcome]
    /\ IF outcome = "emitted"
       THEN /\ lastGlobalAlertTime' = now
            /\ lastCategoryAlertTime' = MapSet(lastCategoryAlertTime, alert.category, now)
            /\ signalAlert' = Append(signalAlert, [alert |-> alert, time |-> now])
            /\ SendAlertStep(alert, 1)
       ELSE UNCHANGED <<lastGlobalAlertTime, lastCategoryAlertTime, signalAlert,
                        user_settings, sending, sendCalls>>

\* mutant of MicrotasksDrained: a callback may run between two promise jobs
MicrotasksDrained_Never ==
  TRUE

\* `await this.emitAlert(alert)` in processTVLData awaits a promise that is
\* settled already, so the rest of the loop is a promise job; Node runs the
\* promise jobs to the last before it calls the next timer or I/O callback
MicrotasksDrained ==
  tvlPending = <<>>

\* a producer hands a freshly built alert to the gate (processTweet's path)
EmitAlert ==
  /\ MicrotasksDrained
  /\ nextId < MaxAlerts
  /\ \E category \in InputCategories, title \in InputTitles :
       emitAlert([id |-> nextId + 1, category |-> category,
                  priority |-> InputPriority(nextId + 1), source |-> "TWITTER",
                  title |-> title, summary |-> InputSummary(nextId + 1),
                  details |-> InputDetails(nextId + 1),
                  metadata |-> InputMetadata, createdAt |-> now])
  /\ nextId' = nextId + 1
  /\ UNCHANGED <<now, config, db, alerts, tvlAnalysis, tvlPending, deliveryEvents,
                 commands, settingsCall, outages>>
  /\ UNCHANGED <<filterVars, protocolVars, busVars, collectorVars>>

(***************************************************************************)
(* TVLAnalyzer and SignalProcessor.processTVLData                          *)
(***************************************************************************)
Abs(x) == IF x < 0 THEN -x ELSE x

\* priority tiering as written: the >= 50 test comes first
tvlPriority(changePercent) ==
  IF Abs(changePercent) >= 50 THEN AlertPriority.HIGH
  ELSE IF Abs(changePercent) >= 100 THEN AlertPriority.CRITICAL
  ELSE AlertPriority.MEDIUM

tvlAlert(change, id) ==
  LET isIncrease == change.changePercent > 0 IN
  [id |-> id, category |-> "TVL_CHANGE",
   priority |-> tvlPriority(change.changePercent), source |-> "DEFILLAMA",
   title |-> <<IF isIncrease THEN "TVL SURGE - " ELSE "TVL DROP - ", change.name>>,
   summary |-> <<change.name, Abs(change.changePercent)>>,
   details |-> <<change.slug, change.changePercent>>,
   metadata |-> << <<"defillamaSlug", <<change.slug>> >>,
                   <<"tags", <<"tvl", change.slug,
                               IF isIncrease THEN "inflow" ELSE "outflow">> >> >>,
   createdAt |-> now]

\* thresholds[name] || fallback: a threshold that is absent or 0 is falsy
ThresholdOr(thresholds, name, fallback) ==
  IF name \in DOMAIN thresholds /\ thresholds[name] # 0 THEN thresholds[name]
  ELSE fallback

\* the three thresholds analyze passes to getSignificantChanges
analyzeThresholds ==
  LET thresholds == config.categories["TVL_CHANGE"].thresholds IN
  [minChangePercent |-> ThresholdOr(thresholds, "minChangePercent", 10),
   minTvlUsd |-> ThresholdOr(thresholds, "minTvlUsd", 1000000),
   timeframeHours |-> ThresholdOr(thresholds, "timeframeHours", 24)]

\* before the first call of analyze
NoThresholds == [minChangePercent |-> 0, minTvlUsd |-> 0, timeframeHours |-> 0]

NoTvlAnalysis ==
  [called |-> FALSE, thresholds |-> NoThresholds, changes |-> <<>>, candidates |-> <<>>]

\* analyze, given what getSignificantChanges returns
analyze(significantChanges) ==
  IF ~config.categories["TVL_CHANGE"].enabled THEN <<>>
  ELSE [i \in 1..Len(significantChanges) |-> tvlAlert(significantChanges[i], nextId + i)]

\* one emitAlert call of the loop in processTVLData; a throw ends the handler
processTVLDataLoop(candidates) ==
  IF candidates = <<>>
  THEN /\ tvlPending' = <<>>
       /\ UNCHANGED <<lastGlobalAlertTime, lastCategoryAlertTime, signalAlert,
                      user_settings, sending, sendCalls, gateLog>>
  ELSE /\ emitAlert(Head(candidates))
       /\ tvlPending' = IF emitAlertOutcome(Head(candidates)) = "threw" THEN <<>>
                        ELSE Tail(candidates)

\* 'collector:tvl' arrives: analyze, then the first emitAlert up to its await
ProcessTVLData ==
  /\ MicrotasksDrained
  /\ db = "open"
  /\ \E significantChanges \in InputChanges :
       /\ nextId + Len(significantChanges) <= MaxAlerts
       /\ tvlAnalysis' = [called |-> TRUE, thresholds |-> analyzeThresholds,
                          changes |-> significantChanges,
                          candidates |-> analyze(significantChanges)]
       /\ nextId' = nextId + Len(analyze(significantChanges))
       /\ processTVLDataLoop(analyze(significantChanges))
  /\ UNCHANGED <<now, config, db, alerts, deliveryEvents, commands, settingsCall, outages>>
  /\ UNCHANGED <<filterVars, protocolVars, busVars, collectorVars>>

\* processTVLData resumes after `await this.emitAlert(alert)`
ProcessTVLDataResume ==
  /\ tvlPending # <<>>
  /\ processTVLDataLoop(tvlPending)
  /\ UNCHANGED <<now, config, db, alerts, tvlAnalysis, deliveryEvents, commands, settingsCall,
                 outages, nextId>>
  /\ UNCHANGED <<filterVars, protocolVars, busVars, collectorVars>>

(***************************************************************************)
(* Completion of an awaited bot.telegram.sendMessage                       *)
(***************************************************************************)
\* the payload of 'alert:sent' / 'alert:failed'; error names the call that threw
DeliveryEvent(event, s, error) ==
  [event |-> event, alertId |-> s.alert.id, chatId |-> config.allowedChatIds[s.at],
   error |-> error]

\* the send succeeded: save the record, publish 'alert:sent', go on with the loop;
\* a failing save lands in the catch block, which publishes 'alert:failed'
SendMessageResolve(s) ==
  /\ MicrotasksDrained
  /\ s \in sending
  /\ IF saveSucceeds(s.alert)
     THEN /\ alerts' = alerts \cup {AlertRecord(s.alert, config.allowedChatIds[s.at])}
          /\ deliveryEvents' = deliveryEvents \cup {DeliveryEvent("alert:sent", s, "none")}
     ELSE /\ alerts' = alerts
          /\ deliveryEvents' = deliveryEvents \cup {DeliveryEvent("alert:failed", s, "save")}
  /\ SendAlertStep(s.alert, s.at + 1)
  /\ UNCHANGED <<now, config, lastGlobalAlertTime, lastCategoryAlertTime, db,
                 tvlAnalysis, tvlPending, signalAlert, gateLog, commands, settingsCall, outages,
                 nextId>>
  /\ UNCHANGED <<filterVars, protocolVars, busVars, collectorVars>>

\* mutant of SendMessageReject: the record is saved although the send failed
SendMessageReject_Saves(s) ==
  /\ MicrotasksDrained
  /\ s \in sending
  /\ alerts' = alerts \cup {AlertRecord(s.alert, config.allowedChatIds[s.at])}
  /\ deliveryEvents' = deliveryEvents \cup {DeliveryEvent("alert:failed", s, "sendMessage")}
  /\ SendAlertStep(s.alert, s.at + 1)
  /\ UNCHANGED <<now, config, lastGlobalAlertTime, lastCategoryAlertTime, db,
                 tvlAnalysis, tvlPending, signalAlert, gateLog, commands, settingsCall, outages,
                 nextId>>
  /\ UNCHANGED <<filterVars, protocolVars, busVars, collectorVars>>

\* the send failed: publish 'alert:failed', go on with the loop
SendMessageReject(s) ==
  /\ MicrotasksDrained
  /\ s \in sending
  /\ deliveryEvents' = deliveryEvents \cup {DeliveryEvent("alert:failed", s, "sendMessage")}
  /\ SendAlertStep(s.alert, s.at + 1)
  /\ UNCHANGED <<now, config, lastGlobalAlertTime, lastCategoryAlertTime, db, alerts,
                 tvlAnalysis, tvlPending, signalAlert, gateLog, commands, settingsCall, outages,
                 nextId>>
  /\ UNCHANGED <<filterVars, protocolVars, busVars, collectorVars>>

(***************************************************************************)
(* Chat commands: the SettingsRepository mutators                          *)
(***************************************************************************)
SeqRemove(s, x) == SelectSeq(s, LAMBDA y : y # x)

CommandFrame ==
  /\ MicrotasksDrained
  /\ commands < MaxCommands
  /\ db = "open"
  /\ commands' = commands + 1
  /\ UNCHANGED <<now, config, lastGlobalAlertTime, lastCategoryAlertTime, db, alerts,
                 sending, tvlAnalysis, tvlPending, signalAlert, gateLog, sendCalls,
                 deliveryEvents, outages, nextId>>
  /\ UNCHANGED <<filterVars, protocolVars, busVars, collectorVars>>

\* Array.prototype.splice(indexOf(x), 1): the first x is taken out
SpliceFirst(s, x) ==
  LET index == CHOOSE i \in 1..Len(s) : s[i] = x /\ \A j \in 1..(i - 1) : s[j] # x
  IN SubSeq(s, 1, index - 1) \o SubSeq(s, index + 1, Len(s))

\* before the first call
NoSettingsCall == [op |-> "none", chatId |-> "", category |-> "", returned |-> FALSE]

\* mutant of subscribe: the category is added without looking for it
subscribe_NoIncludesCheck(chatId, category) ==
  LET us == getOrCreate(user_settings, chatId)
      categories == us[chatId].subscribed_categories
  IN /\ CommandFrame
     /\ user_settings' =
          [us EXCEPT ![chatId].subscribed_categories = Append(categories, category)]

subscribe(chatId, category) ==
  LET us == getOrCreate(user_settings, chatId)
      categories == us[chatId].subscribed_categories
  IN /\ CommandFrame
     /\ user_settings' =
          IF Includes(categories, category) THEN us
          ELSE [us EXCEPT ![chatId].subscribed_categories = Append(categories, category)]

\* what subscribe(chatId, category) returns: false on `already subscribed`
subscribeReturns(chatId, category) ==
  ~Includes(getSubscribedCategories(user_settings, chatId), category)

unsubscribe(chatId, category) ==
  LET us == getOrCreate(user_settings, chatId)
      categories == us[chatId].subscribed_categories
  IN /\ CommandFrame
     /\ user_settings' =
          IF ~Includes(categories, category) THEN us
          ELSE [us EXCEPT ![chatId].subscribed_categories = SpliceFirst(categories, category)]

\* what unsubscribe(chatId, category) returns: false on `not subscribed`
unsubscribeReturns(chatId, category) ==
  Includes(getSubscribedCategories(user_settings, chatId), category)

setPaused(chatId, paused) ==
  /\ CommandFrame
  /\ user_settings' = [getOrCreate(user_settings, chatId) EXCEPT ![chatId].is_paused = paused]

\* the caller has the call and what it returned (setPaused returns nothing)
Returned(op, chatId, category, returned) ==
  settingsCall' = [op |-> op, chatId |-> chatId, category |-> category,
                   returned |-> returned]

(***************************************************************************)
(* KeywordFilter                                                           *)
(*                                                                         *)
(* A string is the sequence of its characters.                             *)
(***************************************************************************)
Chars == {"a", "b", "A", "B"}

ToLowerChar(c) ==
  CASE c = "A" -> "a"
    [] c = "B" -> "b"
    [] OTHER -> c

\* String.prototype.toLowerCase
toLowerCase(str) == [i \in 1..Len(str) |-> ToLowerChar(str[i])]

\* String.prototype.includes
StringIncludes(str, sub) ==
  \E i \in 0..(Len(str) - Len(sub)) : SubSeq(str, i + 1, i + Len(sub)) = sub

\* tag.replace('#', ''): the first '#' is removed
ReplaceHash(tag) ==
  LET at == {i \in 1..Len(tag) : tag[i] = "#"} IN
    IF at = {} THEN tag
    ELSE LET i == CHOOSE x \in at : \A y \in at : x <= y
         IN SubSeq(tag, 1, i - 1) \o SubSeq(tag, i + 1, Len(tag))

\* a keywords.yaml: the entries of keywords.categories in the order of declaration
KeywordsYaml(order) ==
  LET entry(category) ==
        CASE category = "GOVERNANCE" ->
               [category |-> category,
                primary |-> << <<"a">>, <<"B">> >>, secondary |-> << <<"A", "b">> >>,
                negative |-> << <<"b", "A">> >>, accounts |-> << <<"A", "b">> >>,
                hashtags |-> << <<"#", "a", "B">> >>]
          [] category = "SECURITY" ->
               [category |-> category,
                primary |-> << <<"a", "B">> >>, secondary |-> << <<"b", "b">> >>,
                negative |-> <<>>, accounts |-> << <<"a", "b">> >>,
                hashtags |-> <<>>]
          [] category = "INCENTIVE" ->
               [category |-> category,
                primary |-> << <<"A", "b">> >>, secondary |-> <<>>,
                negative |-> << <<"a", "a">> >>, accounts |-> <<>>,
                hashtags |-> << <<"#", "b">> >>]
  IN [categories |-> [i \in 1..Len(order) |-> entry(order[i])]]

KeywordsChoices ==
  {KeywordsYaml(<<"GOVERNANCE", "SECURITY", "INCENTIVE">>),
   KeywordsYaml(<<"INCENTIVE", "SECURITY", "GOVERNANCE">>)}

LoadedKeywords == KeywordsYaml(<<"GOVERNANCE", "SECURITY", "INCENTIVE">>)

\* the tweets the collector hands over
InputTexts == UNION {[1..n -> Chars] : n \in 0..MaxTextLen}

InputAuthors == {<<"A", "B">>, <<"b">>}

InputHashtags == {<<>>, << <<"A", "b">> >>}

InputTweets ==
  [tweetId : {<<"1">>}, text : InputTexts, authorUsername : InputAuthors,
   hashtags : InputHashtags, isRetweet : BOOLEAN, retweetCount : {100, 101},
   likeCount : {500, 501}]

\* the categories matchesCategory is asked about; NARRATIVE has no keywords
InputFilterCategories == {"GOVERNANCE", "SECURITY", "INCENTIVE", "NARRATIVE"}

\* mutant of matchKeywords: the keyword is compared as configured
matchKeywords_CaseSensitive(textLower, kws) ==
  SelectSeq(kws, LAMBDA kw : StringIncludes(textLower, kw))

\* kws.filter((kw) => textLower.includes(kw.toLowerCase()))
matchKeywords(textLower, kws) ==
  SelectSeq(kws, LAMBDA kw : StringIncludes(textLower, toLowerCase(kw)))

\* mutant of qualifies: every category is scored
qualifies_Always(matchedPrimary, isFromPriorityAccount) == TRUE

\* the test that opens the scoring of a category
qualifies(matchedPrimary, isFromPriorityAccount) ==
  Len(matchedPrimary) > 0 \/ isFromPriorityAccount

\* mutant of included: a positive score is enough
included_ScoreOnly(score, matchedNegative) == score > 0

\* the test that pushes a match
included(score, matchedNegative) ==
  score > 0 /\ Len(matchedNegative) = 0

\* mutant of scoreCategory: the boosts are given from 100 retweets and 500 likes on
scoreCategory_BoostAtThreshold(tweet, categoryKeywords) ==
  LET textLower == toLowerCase(tweet.text)
      authorLower == toLowerCase(tweet.authorUsername)
      matchedNegative == matchKeywords(textLower, categoryKeywords.negative)
      matchedPrimary == matchKeywords(textLower, categoryKeywords.primary)
      matchedSecondary == matchKeywords(textLower, categoryKeywords.secondary)
      isFromPriorityAccount ==
        \E i \in 1..Len(categoryKeywords.accounts) :
          toLowerCase(categoryKeywords.accounts[i]) = authorLower
      matchedHashtags ==
        SelectSeq(categoryKeywords.hashtags,
                  LAMBDA tag : \E i \in 1..Len(tweet.hashtags) :
                                 toLowerCase(tweet.hashtags[i]) = toLowerCase(ReplaceHash(tag)))
      score == Len(matchedPrimary) * 10 + Len(matchedSecondary) * 5
               + Len(matchedHashtags) * 3
               + (IF isFromPriorityAccount THEN 20 ELSE 0)
               + (IF tweet.retweetCount >= 100 THEN 5 ELSE 0)
               + (IF tweet.likeCount >= 500 THEN 5 ELSE 0)
               - Len(matchedNegative) * 50
  IN [category |-> categoryKeywords.category, score |-> score,
      matchedPrimary |-> matchedPrimary, matchedSecondary |-> matchedSecondary,
      matchedNegative |-> matchedNegative,
      isFromPriorityAccount |-> isFromPriorityAccount]

\* the locals of one turn of the loop over Object.entries(keywords.categories);
\* the score is the one the turn computes when it enters the scoring
scoreCategory(tweet, categoryKeywords) ==
  LET textLower == toLowerCase(tweet.text)
      authorLower == toLowerCase(tweet.authorUsername)
      matchedNegative == matchKeywords(textLower, categoryKeywords.negative)
      matchedPrimary == matchKeywords(textLower, categoryKeywords.primary)
      matchedSecondary == matchKeywords(textLower, categoryKeywords.secondary)
      isFromPriorityAccount ==
        \E i \in 1..Len(categoryKeywords.accounts) :
          toLowerCase(categoryKeywords.accounts[i]) = authorLower
      matchedHashtags ==
        SelectSeq(categoryKeywords.hashtags,
                  LAMBDA tag : \E i \in 1..Len(tweet.hashtags) :
                                 toLowerCase(tweet.hashtags[i]) = toLowerCase(ReplaceHash(tag)))
      score == Len(matchedPrimary) * 10 + Len(matchedSecondary) * 5
               + Len(matchedHashtags) * 3
               + (IF isFromPriorityAccount THEN 20 ELSE 0)
               + (IF tweet.retweetCount > 100 THEN 5 ELSE 0)
               + (IF tweet.likeCount > 500 THEN 5 ELSE 0)
               - Len(matchedNegative) * 50
  IN [category |-> categoryKeywords.category, score |-> score,
      matchedPrimary |-> matchedPrimary, matchedSecondary |-> matchedSecondary,
      matchedNegative |-> matchedNegative,
      isFromPriorityAccount |-> isFromPriorityAccount]

\* one turn of the loop: the matches it pushes (none or one)
matchCategory(tweet, categoryKeywords) ==
  LET m == scoreCategory(tweet, categoryKeywords) IN
    IF qualifies(m.matchedPrimary, m.isFromPriorityAccount)
         /\ included(m.score, m.matchedNegative)
    THEN <<m>> ELSE <<>>

RECURSIVE scoredLoop(_, _)
\* the categories that enter the scoring, with the score computed for each
scoredLoop(tweet, entries) ==
  IF entries = <<>> THEN <<>>
  ELSE LET m == scoreCategory(tweet, Head(entries)) IN
         (IF qualifies(m.matchedPrimary, m.isFromPriorityAccount)
          THEN << [category |-> m.category, score |-> m.score] >> ELSE <<>>)
           \o scoredLoop(tweet, Tail(entries))

RECURSIVE matchLoop(_, _)
\* the loop over the entries, from the first
matchLoop(tweet, entries) ==
  IF entries = <<>> THEN <<>>
  ELSE matchCategory(tweet, Head(entries)) \o matchLoop(tweet, Tail(entries))

\* places m before the first match with a smaller score
InsertByScore(sorted, m) ==
  LET smaller == {i \in 1..Len(sorted) : sorted[i].score < m.score}
      at == IF smaller = {} THEN Len(sorted) + 1
            ELSE CHOOSE i \in smaller : \A j \in smaller : i <= j
  IN SubSeq(sorted, 1, at - 1) \o <<m>> \o SubSeq(sorted, at, Len(sorted))

\* places m before the first match whose score is not larger
InsertByScore_BeforeEqual(sorted, m) ==
  LET notLarger == {i \in 1..Len(sorted) : sorted[i].score <= m.score}
      at == IF notLarger = {} THEN Len(sorted) + 1
            ELSE CHOOSE i \in notLarger : \A j \in notLarger : i <= j
  IN SubSeq(sorted, 1, at - 1) \o <<m>> \o SubSeq(sorted, at, Len(sorted))

RECURSIVE sortByScore_Unstable(_)
\* mutant of sortByScore: matches of equal score change places
sortByScore_Unstable(matches) ==
  IF matches = <<>> THEN <<>>
  ELSE InsertByScore_BeforeEqual(sortByScore_Unstable(SubSeq(matches, 1, Len(matches) - 1)),
                                 matches[Len(matches)])

RECURSIVE sortByScore(_)
\* matches.sort((a, b) => b.score - a.score): Array.prototype.sort is stable
sortByScore(matches) ==
  IF matches = <<>> THEN <<>>
  ELSE InsertByScore(sortByScore(SubSeq(matches, 1, Len(matches) - 1)),
                     matches[Len(matches)])

matchTweet(tweet) == sortByScore(matchLoop(tweet, keywords.categories))

\* mutant of matchesCategory: the negative keywords are not looked at
matchesCategory_IgnoresNegative(text, category) ==
  LET configured == {i \in 1..Len(keywords.categories) :
                       keywords.categories[i].category = category}
  IN IF configured = {} THEN FALSE
     ELSE LET categoryKeywords == keywords.categories[CHOOSE i \in configured : TRUE]
              textLower == toLowerCase(text)
          IN \E i \in 1..Len(categoryKeywords.primary) :
               StringIncludes(textLower, toLowerCase(categoryKeywords.primary[i]))

matchesCategory(text, category) ==
  LET configured == {i \in 1..Len(keywords.categories) :
                       keywords.categories[i].category = category}
  IN IF configured = {} THEN FALSE
     ELSE LET categoryKeywords == keywords.categories[CHOOSE i \in configured : TRUE]
              textLower == toLowerCase(text)
              hasNegative ==
                \E i \in 1..Len(categoryKeywords.negative) :
                  StringIncludes(textLower, toLowerCase(categoryKeywords.negative[i]))
          IN IF hasNegative THEN FALSE
             ELSE \E i \in 1..Len(categoryKeywords.primary) :
                    StringIncludes(textLower, toLowerCase(categoryKeywords.primary[i]))

NoTweet ==
  [tweetId |-> <<>>, text |-> <<>>, authorUsername |-> <<>>, hashtags |-> <<>>,
   isRetweet |-> FALSE, retweetCount |-> 0, likeCount |-> 0]

\* scored holds the loop's local score of every category that entered the scoring
NoTweetMatch == [called |-> FALSE, matches |-> <<>>, scored |-> <<>>]

NoCategoryMatch == [called |-> FALSE, category |-> "", result |-> FALSE]

NoTweetSubmitted == [called |-> FALSE, alerts |-> <<>>]

MatchTweet ==
  /\ ~tweetMatch.called
  /\ tweetMatch' = [called |-> TRUE, matches |-> matchTweet(rawTweet),
                    scored |-> scoredLoop(rawTweet, keywords.categories)]
  /\ UNCHANGED <<now, gateVars, keywords, rawTweet, categoryMatch, tweetSubmitted,
               protocolVars, busVars, collectorVars>>

MatchesCategory ==
  /\ \E category \in InputFilterCategories :
       categoryMatch' = [called |-> TRUE, category |-> category,
                         result |-> matchesCategory(rawTweet.text, category)]
  /\ UNCHANGED <<now, gateVars, keywords, rawTweet, tweetMatch, tweetSubmitted,
               protocolVars, busVars, collectorVars>>

(***************************************************************************)
(* SignalProcessor.processTweet                                            *)
(***************************************************************************)
\* config.alerts.categories[category]?.priority || AlertPriority.MEDIUM
getCategoryPriority(category) ==
  IF category \in DOMAIN config.categories /\ config.categories[category].priority # 0
  THEN config.categories[category].priority
  ELSE AlertPriority.MEDIUM

\* the title createTweetAlert gives an alert of the category
TweetTitle(category, authorUsername) ==
  (CASE category = "INCENTIVE" -> <<"INCENTIVE SIGNAL - @">>
     [] category = "SECURITY" -> <<"SECURITY ALERT - @">>
     [] category = "TOKEN_EVENT" -> <<"TOKEN EVENT - @">>
     [] category = "GOVERNANCE" -> <<"GOVERNANCE UPDATE - @">>
     [] category = "NARRATIVE" -> <<"NARRATIVE SIGNAL - @">>
     [] category = "TVL_CHANGE" -> <<"TVL UPDATE - @">>
     [] OTHER -> <<"DEFI SIGNAL - @">>) \o authorUsername

\* array.slice(0, n)
SliceFirst(array, n) == SubSeq(array, 1, IF Len(array) < n THEN Len(array) ELSE n)

RECURSIVE TagList(_)
\* the hashtags as members of the tags array
TagList(hashtags) ==
  IF hashtags = <<>> THEN <<>>
  ELSE <<",">> \o Head(hashtags) \o TagList(Tail(hashtags))

\* mutant of createTweetAlert: the priority is always that of the category
createTweetAlert_NoBoost(tweet, match, id) ==
  [id |-> id, category |-> match.category,
   priority |-> getCategoryPriority(match.category),
   source |-> "TWITTER", title |-> TweetTitle(match.category, tweet.authorUsername),
   summary |-> tweet.text, details |-> <<"rawContent">> \o tweet.text,
   metadata |-> << <<"twitterHandle", tweet.authorUsername>>,
                   <<"tweetId", tweet.tweetId>>,
                   <<"tags", <<match.category>>
                               \o TagList(SliceFirst(tweet.hashtags, 3))
                               \o (IF match.isFromPriorityAccount
                                   THEN <<",", "priority">> ELSE <<>>)>> >>,
   createdAt |-> now]

\* the alert createTweetAlert builds; id is the uuid it draws
createTweetAlert(tweet, match, id) ==
  [id |-> id, category |-> match.category,
   priority |-> IF match.category = "SECURITY" /\ match.isFromPriorityAccount
                THEN AlertPriority.CRITICAL
                ELSE getCategoryPriority(match.category),
   source |-> "TWITTER", title |-> TweetTitle(match.category, tweet.authorUsername),
   summary |-> tweet.text, details |-> <<"rawContent">> \o tweet.text,
   metadata |-> << <<"twitterHandle", tweet.authorUsername>>,
                   <<"tweetId", tweet.tweetId>>,
                   <<"tags", <<match.category>>
                               \o TagList(SliceFirst(tweet.hashtags, 3))
                               \o (IF match.isFromPriorityAccount
                                   THEN <<",", "priority">> ELSE <<>>)>> >>,
   createdAt |-> now]

\* mutant of topMatch: the match of the category declared last is taken
topMatch_Last(matches) ==
  matches[Len(matches)]

\* const topMatch = matches[0]
topMatch(matches) ==
  matches[1]

\* processTweet: retweets are skipped before matchTweet is called
processTweet(tweet) ==
  LET matches == matchTweet(tweet)
      alert == createTweetAlert(tweet, topMatch(matches), nextId + 1)
  IN IF tweet.isRetweet
     THEN /\ tweetSubmitted' = [called |-> TRUE, alerts |-> <<>>]
          /\ UNCHANGED <<tweetMatch, nextId, gateLog, lastGlobalAlertTime,
                         lastCategoryAlertTime, signalAlert, user_settings, sending,
                         sendCalls>>
     ELSE /\ tweetMatch' = [called |-> TRUE, matches |-> matches,
                            scored |-> scoredLoop(tweet, keywords.categories)]
          /\ IF matches = <<>>
             THEN /\ tweetSubmitted' = [called |-> TRUE, alerts |-> <<>>]
                  /\ UNCHANGED <<nextId, gateLog, lastGlobalAlertTime,
                                 lastCategoryAlertTime, signalAlert, user_settings,
                                 sending, sendCalls>>
             ELSE /\ tweetSubmitted' = [called |-> TRUE, alerts |-> <<alert>>]
                  /\ nextId' = nextId + 1
                  /\ emitAlert(alert)

\* 'collector:tweet' arrives with rawTweet
ProcessTweet ==
  /\ MicrotasksDrained
  /\ ~tweetSubmitted.called
  /\ processTweet(rawTweet)
  /\ UNCHANGED <<now, config, db, alerts, tvlAnalysis, tvlPending, deliveryEvents,
                 commands, settingsCall, outages>>
  /\ UNCHANGED <<keywords, rawTweet, categoryMatch, protocolVars, busVars,
                 collectorVars>>

(***************************************************************************)
(* ProtocolRepository                                                      *)
(***************************************************************************)
\* the values of hoursAgo (24 | 48 | 168)
HoursAgo == {24, 48, 168}

\* hoursAgo * 60 * 60 * 1000
HoursMs(hoursAgo) ==
  CASE hoursAgo = 24 -> Ms24h
    [] hoursAgo = 48 -> Ms48h
    [] hoursAgo = 168 -> Ms7d

\* the TVL values a snapshot carries; every quotient of two of them times 100
\* is a whole number, so the floating-point changePercent is exact
InputTvl == {0, 1000000, 2000000}

\* the protocol the collector reports; it is untracked until its first snapshot
InputSlugs == {"lendx"}

\* JSON.stringify of a TVLSnapshot[]: per snapshot the ISO timestamp and the tvl
\* (tvlByChain is written too; nothing reads it back)
JSONStringifyHistory(history) ==
  [i \in 1..Len(history) |-> <<"timestamp", history[i].timestamp, "tvl", history[i].tvl>>]

\* JSON.parse of a stored history; new Date(s.timestamp).getTime() gives the
\* milliseconds the ISO timestamp was written from
JSONParseHistory(text) ==
  [i \in 1..Len(text) |-> [timestamp |-> text[i][2], tvl |-> text[i][4]]]

\* history.slice(-n)
SliceLast(history, n) == SubSeq(history, Len(history) - n + 1, Len(history))

RECURSIVE DropWhileOld(_, _)
\* drops the leading snapshots that are not later than cutoff
DropWhileOld(history, cutoff) ==
  IF history # <<>> /\ Head(history).timestamp <= cutoff
  THEN DropWhileOld(Tail(history), cutoff) ELSE history

\* mutant of upsert: only the snapshots at the head of a history are pruned
upsert_PruneHeadOnly(slug, name, tvl) ==
  LET tracked == slug \in DOMAIN protocol_state
      snapshot == [timestamp |-> now, tvl |-> tvl]
      history24h == (IF tracked THEN JSONParseHistory(protocol_state[slug].tvl_history_24h)
                     ELSE <<>>) \o <<snapshot>>
      history7d == (IF tracked THEN JSONParseHistory(protocol_state[slug].tvl_history_7d)
                    ELSE <<>>) \o <<snapshot>>
      pruned24h == DropWhileOld(history24h, now - Ms24h)
      pruned7d == DropWhileOld(history7d, now - Ms7d)
      limited24h == IF Len(pruned24h) > History24hLimit
                    THEN SliceLast(pruned24h, History24hLimit) ELSE pruned24h
      limited7d == IF Len(pruned7d) > History7dLimit
                   THEN SliceLast(pruned7d, History7dLimit) ELSE pruned7d
  IN [slug |-> slug, name |-> name, last_tvl |-> tvl, last_checked_at |-> now,
      tvl_history_24h |-> JSONStringifyHistory(limited24h),
      tvl_history_7d |-> JSONStringifyHistory(limited7d)]

\* mutant of upsert: a history over its limit keeps its first points
upsert_KeepOldest(slug, name, tvl) ==
  LET tracked == slug \in DOMAIN protocol_state
      snapshot == [timestamp |-> now, tvl |-> tvl]
      history24h == (IF tracked THEN JSONParseHistory(protocol_state[slug].tvl_history_24h)
                     ELSE <<>>) \o <<snapshot>>
      history7d == (IF tracked THEN JSONParseHistory(protocol_state[slug].tvl_history_7d)
                    ELSE <<>>) \o <<snapshot>>
      cutoff24h == now - Ms24h
      cutoff7d == now - Ms7d
      pruned24h == SelectSeq(history24h, LAMBDA s : s.timestamp > cutoff24h)
      pruned7d == SelectSeq(history7d, LAMBDA s : s.timestamp > cutoff7d)
      limited24h == IF Len(pruned24h) > History24hLimit
                    THEN SubSeq(pruned24h, 1, History24hLimit) ELSE pruned24h
      limited7d == IF Len(pruned7d) > History7dLimit
                   THEN SubSeq(pruned7d, 1, History7dLimit) ELSE pruned7d
  IN [slug |-> slug, name |-> name, last_tvl |-> tvl, last_checked_at |-> now,
      tvl_history_24h |-> JSONStringifyHistory(limited24h),
      tvl_history_7d |-> JSONStringifyHistory(limited7d)]

\* the row upsert writes for slug (INSERT ... ON CONFLICT(slug) DO UPDATE)
upsert(slug, name, tvl) ==
  LET tracked == slug \in DOMAIN protocol_state
      snapshot == [timestamp |-> now, tvl |-> tvl]
      history24h == (IF tracked THEN JSONParseHistory(protocol_state[slug].tvl_history_24h)
                     ELSE <<>>) \o <<snapshot>>
      history7d == (IF tracked THEN JSONParseHistory(protocol_state[slug].tvl_history_7d)
                    ELSE <<>>) \o <<snapshot>>
      cutoff24h == now - Ms24h
      cutoff7d == now - Ms7d
      pruned24h == SelectSeq(history24h, LAMBDA s : s.timestamp > cutoff24h)
      pruned7d == SelectSeq(history7d, LAMBDA s : s.timestamp > cutoff7d)
      limited24h == IF Len(pruned24h) > History24hLimit
                    THEN SliceLast(pruned24h, History24hLimit) ELSE pruned24h
      limited7d == IF Len(pruned7d) > History7dLimit
                   THEN SliceLast(pruned7d, History7dLimit) ELSE pruned7d
  IN [slug |-> slug, name |-> name, last_tvl |-> tvl, last_checked_at |-> now,
      tvl_history_24h |-> JSONStringifyHistory(limited24h),
      tvl_history_7d |-> JSONStringifyHistory(limited7d)]

\* the result object of calculateTvlChange for a previous snapshot
TvlChange(previousTvl, currentTvl) ==
  [previousTvl |-> previousTvl, currentTvl |-> currentTvl,
   changePercent |-> ((currentTvl - previousTvl) * 100) \div previousTvl,
   changeAbsolute |-> currentTvl - previousTvl]

\* the history calculateTvlChange reads for hoursAgo
selectedHistory(state, hoursAgo) ==
  IF hoursAgo <= 24 THEN JSONParseHistory(state.tvl_history_24h)
  ELSE JSONParseHistory(state.tvl_history_7d)

\* mutant of calculateTvlChange: a history of one point is enough
calculateTvlChange_NoLengthCheck(slug, hoursAgo) ==
  IF slug \notin DOMAIN protocol_state THEN <<>>
  ELSE LET state == protocol_state[slug]
           history == selectedHistory(state, hoursAgo)
           cutoff == now - HoursMs(hoursAgo)
           found == {i \in 1..Len(history) : history[i].timestamp >= cutoff}
       IN IF found = {} THEN <<>>
          ELSE LET oldSnapshot == history[CHOOSE i \in found : \A j \in found : i <= j]
               IN IF oldSnapshot.tvl = 0 THEN <<>>
                  ELSE <<TvlChange(oldSnapshot.tvl, state.last_tvl)>>

\* mutant of calculateTvlChange: without a snapshot inside the lookback the
\* oldest stored snapshot is used
calculateTvlChange_FallBackToOldest(slug, hoursAgo) ==
  IF slug \notin DOMAIN protocol_state THEN <<>>
  ELSE LET state == protocol_state[slug]
           history == selectedHistory(state, hoursAgo)
           cutoff == now - HoursMs(hoursAgo)
           found == {i \in 1..Len(history) : history[i].timestamp >= cutoff}
       IN IF Len(history) < 2 THEN <<>>
          ELSE LET oldSnapshot ==
                     IF found = {} THEN history[1]
                     ELSE history[CHOOSE i \in found : \A j \in found : i <= j]
               IN IF oldSnapshot.tvl = 0 THEN <<>>
                  ELSE <<TvlChange(oldSnapshot.tvl, state.last_tvl)>>

\* mutant of calculateTvlChange: the previous snapshot is the latest one
calculateTvlChange_PreviousIsLatest(slug, hoursAgo) ==
  IF slug \notin DOMAIN protocol_state THEN <<>>
  ELSE LET state == protocol_state[slug]
           history == selectedHistory(state, hoursAgo)
           cutoff == now - HoursMs(hoursAgo)
           found == {i \in 1..Len(history) : history[i].timestamp >= cutoff}
       IN IF Len(history) < 2 THEN <<>>
          ELSE IF found = {} THEN <<>>
          ELSE LET oldSnapshot == history[CHOOSE i \in found : \A j \in found : i >= j]
               IN IF oldSnapshot.tvl = 0 THEN <<>>
                  ELSE <<TvlChange(oldSnapshot.tvl, state.last_tvl)>>

\* what calculateTvlChange returns when protocol_state holds the rows of
\* table: <<>> for null, <<result>> otherwise
calculateTvlChangeOn(table, slug, hoursAgo) ==
  IF slug \notin DOMAIN table THEN <<>>
  ELSE LET state == table[slug]
           history == selectedHistory(state, hoursAgo)
           cutoff == now - HoursMs(hoursAgo)
           \* history.find: the first snapshot in stored order that passes the test
           found == {i \in 1..Len(history) : history[i].timestamp >= cutoff}
       IN IF Len(history) < 2 THEN <<>>
          ELSE IF found = {} THEN <<>>
          ELSE LET oldSnapshot == history[CHOOSE i \in found : \A j \in found : i <= j]
               IN IF oldSnapshot.tvl = 0 THEN <<>>
                  ELSE <<TvlChange(oldSnapshot.tvl, state.last_tvl)>>

\* calculateTvlChange on the table as it is
calculateTvlChange(slug, hoursAgo) ==
  calculateTvlChangeOn(protocol_state, slug, hoursAgo)

\* the rows of SELECT slug, name, last_tvl FROM protocol_state WHERE last_tvl >= ?
\* as sequences of their slugs; the statement has no ORDER BY, so every order
\* of the rows is one SQLite may return
selectRows(table, minTvlUsd) ==
  LET slugs == {slug \in DOMAIN table : table[slug].last_tvl >= minTvlUsd}
  IN {rows \in [1..Cardinality(slugs) -> slugs] :
        \A i, j \in 1..Cardinality(slugs) : rows[i] = rows[j] => i = j}

RECURSIVE sortByAbsChange(_)
\* results.sort((a, b) => Math.abs(b.changePercent) - Math.abs(a.changePercent));
\* Array.prototype.sort is stable
sortByAbsChange(results) ==
  IF results = <<>> THEN <<>>
  ELSE LET last == results[Len(results)]
           sorted == sortByAbsChange(SubSeq(results, 1, Len(results) - 1))
       IN SelectSeq(sorted, LAMBDA r : Abs(r.changePercent) >= Abs(last.changePercent))
          \o <<last>>
          \o SelectSeq(sorted, LAMBDA r : Abs(r.changePercent) < Abs(last.changePercent))

RECURSIVE significantLoop(_, _, _, _)
\* the loop over the rows: a row is pushed when calculateTvlChange gives a
\* result whose |changePercent| reaches minChangePercent
significantLoop(table, rows, minChangePercent, hoursAgo) ==
  IF rows = <<>> THEN <<>>
  ELSE LET slug == Head(rows)
           change == calculateTvlChangeOn(table, slug, hoursAgo)
       IN (IF change # <<>> /\ Abs(change[1].changePercent) >= minChangePercent
           THEN <<[slug |-> slug, name |-> table[slug].name,
                   previousTvl |-> change[1].previousTvl,
                   currentTvl |-> change[1].currentTvl,
                   changePercent |-> change[1].changePercent,
                   changeAbsolute |-> change[1].changeAbsolute]>>
           ELSE <<>>)
          \o significantLoop(table, Tail(rows), minChangePercent, hoursAgo)

\* mutant of getSignificantChanges: the results are returned in row order
getSignificantChanges_Unsorted(table, rows, minChangePercent, minTvlUsd, hoursAgo) ==
  significantLoop(table, rows, minChangePercent, hoursAgo)

\* what getSignificantChanges returns when protocol_state holds the rows of
\* table and the SELECT gives rows (one of selectRows(table, minTvlUsd))
getSignificantChanges(table, rows, minChangePercent, minTvlUsd, hoursAgo) ==
  sortByAbsChange(significantLoop(table, rows, minChangePercent, hoursAgo))

NoTvlChange == [called |-> FALSE, slug |-> "", hoursAgo |-> 24, result |-> <<>>]

\* the collector ingests one snapshot of a protocol
Upsert ==
  /\ Len(upsertLog) < MaxUpserts
  /\ db = "open"
  /\ \E slug \in InputSlugs, tvl \in InputTvl :
       /\ protocol_state' = MapSet(protocol_state, slug, upsert(slug, "LendX", tvl))
       /\ upsertLog' = Append(upsertLog, [slug |-> slug, tvl |-> tvl, time |-> now])
  /\ tvlChange' = NoTvlChange
  /\ UNCHANGED <<now, gateVars, filterVars, busVars, collectorVars, clockSetbacks>>

CalculateTvlChange ==
  /\ db = "open"
  /\ \E slug \in InputSlugs, hoursAgo \in HoursAgo :
       tvlChange' = [called |-> TRUE, slug |-> slug, hoursAgo |-> hoursAgo,
                     result |-> calculateTvlChange(slug, hoursAgo)]
  /\ UNCHANGED <<now, gateVars, filterVars, busVars, collectorVars, protocol_state, upsertLog, clockSetbacks>>

(***************************************************************************)
(* EventBus: Node's EventEmitter behind typed emit / on / off              *)
(*                                                                         *)
(* A handler is a closure, so every `on` subscribes a new handler; handlers *)
(* are numbered in the order of their subscription.  The payload of an     *)
(* emit is the number of the emit.                                         *)
(***************************************************************************)
Channels == {"collector:tvl", "signal:alert"}

NoListeners == [channel \in Channels |-> <<>>]

BusCalls(op) == {k \in 1..Len(busLog) : busLog[k].op = op}

BusFrame ==
  /\ Len(busLog) < MaxBusCalls
  /\ UNCHANGED <<now, gateVars, filterVars, protocolVars, collectorVars>>

\* on(event, listener): the listener is added at the end of the channel's list
on(channel) ==
  LET handler == Cardinality(BusCalls("on")) + 1 IN
    /\ BusFrame
    /\ listeners' = [listeners EXCEPT ![channel] = Append(@, handler)]
    /\ busLog' = Append(busLog, [op |-> "on", channel |-> channel, handler |-> handler,
                                  payload |-> 0, calls |-> <<>>])

\* off(event, listener): the listener is taken out of the channel's list
off(channel, handler) ==
  /\ BusFrame
  /\ Includes(listeners[channel], handler)
  /\ listeners' = [listeners EXCEPT ![channel] = SeqRemove(@, handler)]
  /\ busLog' = Append(busLog, [op |-> "off", channel |-> channel, handler |-> handler,
                                payload |-> 0, calls |-> <<>>])

\* mutant of emitCalls: the listener subscribed last is called first
emitCalls_NewestFirst(channel) ==
  [i \in 1..Len(listeners[channel]) |->
     listeners[channel][Len(listeners[channel]) + 1 - i]]

\* the handlers super.emit calls, in the order it calls them: the channel's
\* list from its first element
emitCalls(channel) ==
  listeners[channel]

\* emit(event, payload): every call to a handler returns before emit returns
emit(channel) ==
  /\ BusFrame
  /\ busLog' = Append(busLog, [op |-> "emit", channel |-> channel, handler |-> 0,
                                payload |-> Cardinality(BusCalls("emit")) + 1,
                                calls |-> emitCalls(channel)])
  /\ UNCHANGED listeners

(***************************************************************************)
(* BaseCollector and TwitterCollector: start, stop, collect                *)
(*                                                                         *)
(* Of a collection only its lifecycle is kept here: doCollect is called,   *)
(* and the request it awaits resolves or rejects.  What DefiLlamaCollector *)
(* does with a response is DefiLlamaDoCollect.                             *)
(***************************************************************************)
CollectorNames == {"DeFiLlama", "Twitter"}

\* pending holds the collect() calls that wait for doCollect, each with the
\* caller that awaits it: start() or the interval timer.  intervalId tells
\* whether the field holds a timer, timers counts the interval timers that are
\* set and not cleared.  chains holds the awaits of the stream mode: of
\* setupStreamRules ("rules"), of searchStream ("connecting") and of the
\* backoff delay ("backoff"), each with whether start() awaits it.  events
\* lists the 'collector:started' / 'collector:stopped' events of the
\* collector, errorEvents counts its 'collector:error' events.
NewCollector ==
  [isRunning |-> FALSE, intervalId |-> FALSE, timers |-> 0, pending |-> <<>>,
   doCollectCalls |-> 0, totalCollections |-> 0, totalErrors |-> 0,
   lastError |-> FALSE, errorEvents |-> 0, stream |-> "none", chains |-> <<>>,
   connects |-> 0, reconnectAttempts |-> 0, started |-> FALSE, calls |-> 0,
   events |-> <<>>]

NewCollectors == [name \in CollectorNames |-> NewCollector]

\* eventBus.emit('collector:started' | 'collector:stopped', { name })
emitCollector(c, event) ==
  [c EXCEPT !.events = Append(@, event)]

\* collect() up to `await this.doCollect()`
collect(c, caller) ==
  IF ~c.isRunning THEN c
  ELSE [c EXCEPT !.doCollectCalls = @ + 1, !.pending = Append(@, caller)]

\* BaseCollector.start() up to `await this.collect()`
baseStart(c) ==
  IF c.isRunning THEN c
  ELSE collect(emitCollector([c EXCEPT !.isRunning = TRUE], "started"), "start")

\* TwitterCollector.start() emits 'collector:started' and returns
startReturns(c) ==
  [emitCollector(c, "started") EXCEPT !.started = TRUE]

\* TwitterCollector.start() up to its first await that leaves the process; in
\* the polling branch super.start() finds isRunning set and returns at once
twitterStart(c) ==
  IF c.isRunning THEN c
  ELSE LET running == [c EXCEPT !.isRunning = TRUE] IN
         IF config.useFilteredStream
         THEN [running EXCEPT !.chains = Append(@, [at |-> "rules", fromStart |-> TRUE])]
         ELSE startReturns(baseStart(running))

baseStop(c) ==
  IF ~c.isRunning THEN c
  ELSE emitCollector([c EXCEPT !.isRunning = FALSE,
                               !.intervalId = FALSE,
                               !.timers = IF c.intervalId THEN @ - 1 ELSE @],
                     "stopped")

\* TwitterCollector.stop(): the stream the field holds is closed first
twitterStop(c) ==
  baseStop([c EXCEPT !.stream = "none"])

CollectorFrame == UNCHANGED <<now, gateVars, filterVars, protocolVars, busVars, main>>

\* CollectorManager.startAll calls collector.start()
Start(name) ==
  /\ collectors[name].calls < MaxCollectorCalls
  /\ collectors[name].doCollectCalls < MaxCollections
  /\ collectors[name].connects < MaxConnects
  /\ collectors' =
       [collectors EXCEPT ![name] =
          [(IF name = "Twitter" THEN twitterStart(@) ELSE baseStart(@))
             EXCEPT !.calls = @ + 1]]
  /\ CollectorFrame

\* CollectorManager.stopAll calls collector.stop()
Stop(name) ==
  /\ collectors[name].calls < MaxCollectorCalls
  /\ collectors' =
       [collectors EXCEPT ![name] =
          [(IF name = "Twitter" THEN twitterStop(@) ELSE baseStop(@))
             EXCEPT !.calls = @ + 1]]
  /\ CollectorFrame

\* the i-th of a sequence is taken out
RemoveAt(s, i) == SubSeq(s, 1, i - 1) \o SubSeq(s, i + 1, Len(s))

\* mutant of afterCollect: a failed collection stops the collector
afterCollect_StopOnError(c, i, succeeded) ==
  LET counted == IF succeeded
                 THEN [c EXCEPT !.totalCollections = @ + 1, !.lastError = FALSE]
                 ELSE [c EXCEPT !.totalErrors = @ + 1, !.lastError = TRUE,
                                !.errorEvents = @ + 1, !.isRunning = FALSE]
      left == [counted EXCEPT !.pending = RemoveAt(@, i)]
  IN IF c.pending[i] = "start"
     THEN [left EXCEPT !.intervalId = TRUE, !.timers = @ + 1, !.started = TRUE]
     ELSE left

\* the await of collect() number i is over: collect() counts the outcome, and
\* a start() that awaited it goes on to setInterval
afterCollect(c, i, succeeded) ==
  LET counted == IF succeeded
                 THEN [c EXCEPT !.totalCollections = @ + 1, !.lastError = FALSE]
                 ELSE [c EXCEPT !.totalErrors = @ + 1, !.lastError = TRUE,
                                !.errorEvents = @ + 1]
      left == [counted EXCEPT !.pending = RemoveAt(@, i)]
  IN IF c.pending[i] = "start"
     THEN [left EXCEPT !.intervalId = TRUE, !.timers = @ + 1, !.started = TRUE]
     ELSE left

\* the request doCollect awaits resolves
DoCollectResolve(name) ==
  /\ \E i \in 1..Len(collectors[name].pending) :
       collectors' = [collectors EXCEPT ![name] = afterCollect(@, i, TRUE)]
  /\ CollectorFrame

\* the request doCollect awaits rejects: collect() counts the error
DoCollectReject(name) ==
  /\ \E i \in 1..Len(collectors[name].pending) :
       collectors' = [collectors EXCEPT ![name] = afterCollect(@, i, FALSE)]
  /\ CollectorFrame

\* an interval timer fires: collect()
IntervalFire(name) ==
  /\ collectors[name].timers > 0
  /\ collectors[name].doCollectCalls < MaxCollections
  /\ collectors' = [collectors EXCEPT ![name] = collect(@, "timer")]
  /\ CollectorFrame

\* startStream() up to `await this.client.v2.searchStream(...)`
startStream(c, fromStart) ==
  [c EXCEPT !.connects = @ + 1,
            !.chains = Append(@, [at |-> "connecting", fromStart |-> fromStart])]

\* handleStreamError up to its await of the backoff delay; nobody awaits it
handleStreamError(c) ==
  LET counted == [c EXCEPT !.reconnectAttempts = @ + 1] IN
    IF counted.reconnectAttempts >= MaxReconnectAttempts
    THEN twitterStop(counted)
    ELSE [counted EXCEPT !.chains = Append(@, [at |-> "backoff", fromStart |-> FALSE])]

\* the await number i of the stream mode, which is at the given place
Awaiting(i, at) ==
  /\ i \in 1..Len(collectors["Twitter"].chains)
  /\ collectors["Twitter"].chains[i].at = at

\* setupStreamRules resolves: start() goes on to startStream()
SetupStreamRulesResolve ==
  /\ \E i \in 1..Len(collectors["Twitter"].chains) :
       /\ Awaiting(i, "rules")
       /\ collectors' =
            [collectors EXCEPT !["Twitter"] =
               startStream([@ EXCEPT !.chains = RemoveAt(@, i)], TRUE)]
  /\ CollectorFrame

\* a request of setupStreamRules rejects: start() throws, and startAll logs it
SetupStreamRulesReject ==
  /\ \E i \in 1..Len(collectors["Twitter"].chains) :
       /\ Awaiting(i, "rules")
       /\ collectors' = [collectors EXCEPT !["Twitter"].chains = RemoveAt(@, i)]
  /\ CollectorFrame

\* searchStream resolves: the field holds the open stream, the counter is
\* reset, and a start() that awaited startStream() returns
StartStreamResolve ==
  /\ \E i \in 1..Len(collectors["Twitter"].chains) :
       /\ Awaiting(i, "connecting")
       /\ LET c == [collectors["Twitter"] EXCEPT !.chains = RemoveAt(@, i),
                                                 !.stream = "open",
                                                 !.reconnectAttempts = 0]
          IN collectors' =
               [collectors EXCEPT !["Twitter"] =
                  IF collectors["Twitter"].chains[i].fromStart THEN startReturns(c)
                  ELSE c]
  /\ CollectorFrame

\* searchStream rejects: the catch calls handleStreamError without awaiting
\* it, and a start() that awaited startStream() returns
StartStreamReject ==
  /\ \E i \in 1..Len(collectors["Twitter"].chains) :
       /\ Awaiting(i, "connecting")
       /\ LET c == handleStreamError([collectors["Twitter"] EXCEPT
                                        !.chains = RemoveAt(@, i)])
          IN collectors' =
               [collectors EXCEPT !["Twitter"] =
                  IF collectors["Twitter"].chains[i].fromStart THEN startReturns(c)
                  ELSE c]
  /\ CollectorFrame

\* the backoff delay is over: handleStreamError connects again if the
\* collector is running
BackoffElapsed ==
  /\ \E i \in 1..Len(collectors["Twitter"].chains) :
       /\ Awaiting(i, "backoff")
       /\ collectors["Twitter"].isRunning => collectors["Twitter"].connects < MaxConnects
       /\ LET c == [collectors["Twitter"] EXCEPT !.chains = RemoveAt(@, i)]
          IN collectors' =
               [collectors EXCEPT !["Twitter"] =
                  IF c.isRunning THEN startStream(c, FALSE) ELSE c]
  /\ CollectorFrame

\* the open stream emits ETwitterStreamEvent.Error
StreamError ==
  /\ collectors["Twitter"].stream = "open"
  /\ collectors' = [collectors EXCEPT !["Twitter"] = handleStreamError(@)]
  /\ CollectorFrame

\* the stream delivers a tweet: TwitterCollector.processTweet publishes it
StreamData ==
  /\ collectors["Twitter"].stream = "open"
  /\ collectors["Twitter"].totalCollections < MaxCollections
  /\ collectors' = [collectors EXCEPT !["Twitter"].totalCollections = @ + 1]
  /\ CollectorFrame

(***************************************************************************)
(* DefiLlamaCollector.doCollect once its requests have resolved: the       *)
(* protocols are stored, 'collector:tvl' is emitted, and the handler       *)
(* processTVLData, which emit calls at once, runs up to its first await    *)
(***************************************************************************)
\* the protocols of a response of /protocols, with the TVL of each
InputReports ==
  {<<[slug |-> "lendx", name |-> "LendX", tvl |-> lendx],
     [slug |-> "swapy", name |-> "SwapY", tvl |-> swapy]>> :
     lendx \in InputTvl, swapy \in InputTvl}

\* the protocols the loop stores: the watchlist is empty, and a protocol with
\* a TVL under 100000 is skipped
storedProtocols(protocols) ==
  SelectSeq(protocols, LAMBDA protocol : ~(protocol.tvl < 100000))

\* protocol_state after the upserts of the loop; a response names a protocol
\* once, so each upsert reads the row as it was before the response
storeProtocols(protocols) ==
  LET stored == storedProtocols(protocols)
      slugs == {stored[i].slug : i \in 1..Len(stored)}
  IN [slug \in DOMAIN protocol_state \cup slugs |->
        IF slug \in slugs
        THEN LET protocol == CHOOSE protocol \in Seq2Set(stored) : protocol.slug = slug
             IN upsert(slug, protocol.name, protocol.tvl)
        ELSE protocol_state[slug]]

DefiLlamaDoCollect ==
  /\ MicrotasksDrained
  /\ db = "open"
  /\ UNCHANGED <<now, config, db, alerts, deliveryEvents, commands, settingsCall, outages>>
  /\ UNCHANGED <<filterVars, busVars, tvlChange, clockSetbacks, main>>
  /\ \E i \in 1..Len(collectors["DeFiLlama"].pending), protocols \in InputReports :
       /\ protocol_state' = storeProtocols(protocols)
       /\ upsertLog' = upsertLog \o
                         [k \in 1..Len(storedProtocols(protocols)) |->
                            [slug |-> storedProtocols(protocols)[k].slug,
                             tvl |-> storedProtocols(protocols)[k].tvl, time |-> now]]
       /\ collectors' = [collectors EXCEPT !["DeFiLlama"] = afterCollect(@, i, TRUE)]
       \* analyze reads the table as the loop has left it
       /\ \E table \in {storeProtocols(protocols)} :
            \E rows \in selectRows(table, analyzeThresholds.minTvlUsd) :
              \E significantChanges \in
                   {getSignificantChanges(table, rows, analyzeThresholds.minChangePercent,
                                          analyzeThresholds.minTvlUsd,
                                          analyzeThresholds.timeframeHours)} :
                /\ tvlAnalysis' = [called |-> TRUE, thresholds |-> analyzeThresholds,
                                   changes |-> significantChanges,
                                   candidates |-> analyze(significantChanges)]
                /\ nextId' = nextId + Len(analyze(significantChanges))
                /\ processTVLDataLoop(analyze(significantChanges))

(***************************************************************************)
(* DatabaseWrapper and the clock                                           *)
(***************************************************************************)
DatabaseClose ==
  /\ MicrotasksDrained
  /\ db = "open"
  /\ outages < MaxDbOutages
  /\ db' = "null"
  /\ outages' = outages + 1
  /\ UNCHANGED <<now, config, lastGlobalAlertTime, lastCategoryAlertTime, alerts,
                 user_settings, sending, tvlAnalysis, tvlPending, signalAlert, gateLog,
                 sendCalls, deliveryEvents, commands, settingsCall, nextId>>
  /\ UNCHANGED <<filterVars, protocolVars, busVars, collectorVars>>

DatabaseInitialize ==
  /\ MicrotasksDrained
  /\ db = "null"
  /\ db' = "open"
  /\ UNCHANGED <<now, config, lastGlobalAlertTime, lastCategoryAlertTime, alerts,
                 user_settings, sending, tvlAnalysis, tvlPending, signalAlert, gateLog,
                 sendCalls, deliveryEvents, commands, settingsCall, outages, nextId>>
  /\ UNCHANGED <<filterVars, protocolVars, busVars, collectorVars>>

Tick ==
  /\ now < StartTime + MaxTicks
  /\ now' = now + 1
  /\ tvlChange' = NoTvlChange
  /\ UNCHANGED <<gateVars, filterVars, busVars, collectorVars, protocol_state, upsertLog, clockSetbacks>>

\* the system clock is set back (Date.now() is not monotonic)
ClockSetBack ==
  /\ clockSetbacks < MaxClockSetbacks
  /\ now > 1
  /\ now' = now - 1
  /\ clockSetbacks' = clockSetbacks + 1
  /\ tvlChange' = NoTvlChange
  /\ UNCHANGED <<gateVars, filterVars, busVars, collectorVars, protocol_state, upsertLog>>

(***************************************************************************)
(* Specification                                                           *)
(***************************************************************************)
NoAlert ==
  [id |-> 0, category |-> "", priority |-> 0, source |-> "", title |-> <<>>,
   summary |-> <<>>, details |-> <<>>, metadata |-> <<>>, createdAt |-> 0]

\* the priorities the schema gives the categories
DefaultPriority(category) ==
  CASE category = "INCENTIVE" -> AlertPriority.HIGH
    [] category = "TVL_CHANGE" -> AlertPriority.MEDIUM
    [] category = "TOKEN_EVENT" -> AlertPriority.HIGH
    [] category = "GOVERNANCE" -> AlertPriority.MEDIUM
    [] category = "SECURITY" -> AlertPriority.CRITICAL
    [] category = "NARRATIVE" -> AlertPriority.LOW

\* thresholds is a record of numbers by name; only those of TVL_CHANGE are read
DefaultThresholds(category) ==
  IF category = "TVL_CHANGE"
  THEN [minChangePercent |-> 10, minTvlUsd |-> 1000000, timeframeHours |-> 24]
  ELSE [k \in {} |-> 0]

\* a category block with the priority and the thresholds of the schema
CategoryConfig(category, enabled, cooldownMs) ==
  [enabled |-> enabled, priority |-> DefaultPriority(category),
   cooldownMs |-> cooldownMs, thresholds |-> DefaultThresholds(category)]

\* Scaled defaults of the configuration schema: TVL_CHANGE has the long
\* category cooldown, SECURITY none.  The global cooldown and the enabled
\* flags of the two categories the inputs use are drawn.
CategoryChoices ==
  { [k \in AlertCategory |-> CategoryConfig(k, cs[k].enabled, cs[k].cooldownMs)] :
      cs \in
        { cs \in [AlertCategory -> [enabled : BOOLEAN, cooldownMs : {0, CategoryCooldownMax}]] :
            /\ \A k \in AlertCategory \ InputCategories :
                 cs[k] = [enabled |-> TRUE, cooldownMs |-> CategoryCooldownMax]
            /\ cs["TVL_CHANGE"].cooldownMs = CategoryCooldownMax
            /\ cs["SECURITY"].cooldownMs = 0
            /\ cs["TVL_CHANGE"].enabled \/ cs["SECURITY"].enabled } }

ConfigChoices ==
  [globalCooldownMs : {0, GlobalCooldownMax},
   deduplicationWindowMs : {DedupWindowMax},
   categories : CategoryChoices,
   allowedChatIds : {<<"chat1">>},
   useFilteredStream : {TRUE}]

\* the state of a process that has not run main() yet, but for the database
\* handle, the tables user_settings and protocol_state, the event bus and the
\* position of main()
InitProcess ==
  /\ now = StartTime
  /\ lastGlobalAlertTime = 0
  /\ lastCategoryAlertTime = <<>>
  /\ alerts = {}
  /\ sending = {}
  /\ tvlAnalysis = NoTvlAnalysis
  /\ tvlPending = <<>>
  /\ signalAlert = <<>>
  /\ gateLog = [alert |-> NoAlert, key |-> <<>>, outcome |-> "none"]
  /\ sendCalls = {}
  /\ deliveryEvents = {}
  /\ commands = 0
  /\ settingsCall = NoSettingsCall
  /\ outages = 0
  /\ nextId = 0
  /\ tweetMatch = NoTweetMatch
  /\ categoryMatch = NoCategoryMatch
  /\ tweetSubmitted = NoTweetSubmitted
  /\ tvlChange = NoTvlChange
  /\ upsertLog = <<>>
  /\ clockSetbacks = 0
  /\ busLog = <<>>
  /\ collectors = NewCollectors

\* the state the specifications of the single components start in: the
\* database is open and main() has come to its end
InitState ==
  /\ InitProcess
  /\ db = "open"
  /\ user_settings = <<>>
  /\ protocol_state = <<>>
  /\ listeners = NoListeners
  /\ main = "ready"

Init ==
  InitState /\ config \in ConfigChoices /\ keywords = LoadedKeywords /\ rawTweet = NoTweet

Next ==
  \/ EmitAlert
  \/ ProcessTVLData
  \/ ProcessTVLDataResume
  \/ \E s \in sending : SendMessageResolve(s)
  \/ \E s \in sending : SendMessageReject(s)
  \/ Tick

Spec == Init /\ [][Next]_vars

\* the same program when the database handle can be lost, for one configuration
OutageConfig ==
  [globalCooldownMs |-> GlobalCooldownMax, deduplicationWindowMs |-> DedupWindowMax,
   categories |-> [k \in AlertCategory |->
                    CategoryConfig(k, TRUE,
                                   IF k = "SECURITY" THEN 0 ELSE CategoryCooldownMax)],
   allowedChatIds |-> <<"chat1">>, useFilteredStream |-> TRUE]

InitOutage ==
  InitState /\ config = OutageConfig /\ keywords = LoadedKeywords /\ rawTweet = NoTweet

NextOutage ==
  \/ Next
  \/ DatabaseClose
  \/ DatabaseInitialize

SpecOutage == InitOutage /\ [][NextOutage]_vars

\* the same program with the chat commands, for one configuration; what the
\* commands return is not kept
ChatConfig ==
  [globalCooldownMs |-> 0, deduplicationWindowMs |-> DedupWindowMax,
   categories |-> [k \in AlertCategory |-> CategoryConfig(k, TRUE, 0)],
   allowedChatIds |-> <<"chat1", "", "chat2">>, useFilteredStream |-> TRUE]

InitChat ==
  InitState /\ config = ChatConfig /\ keywords = LoadedKeywords /\ rawTweet = NoTweet

NextChat ==
  \/ EmitAlert
  \/ \E s \in sending : SendMessageResolve(s)
  \/ \E s \in sending : SendMessageReject(s)
  \/ \E chatId \in ChatIds, category \in InputCategories :
       subscribe(chatId, category) /\ UNCHANGED settingsCall
  \/ \E chatId \in ChatIds, category \in InputCategories :
       unsubscribe(chatId, category) /\ UNCHANGED settingsCall
  \/ \E chatId \in ChatIds, paused \in BOOLEAN :
       setPaused(chatId, paused) /\ UNCHANGED settingsCall

SpecChat == InitChat /\ [][NextChat]_vars

\* the protocol repository under a clock that can be set back
InitTvl ==
  InitState /\ config = OutageConfig /\ keywords = LoadedKeywords /\ rawTweet = NoTweet

NextTvl ==
  \/ Upsert
  \/ CalculateTvlChange
  \/ Tick
  \/ ClockSetBack

SpecTvl == InitTvl /\ [][NextTvl]_vars

\* the keyword filter, for the keyword files of KeywordsChoices
InitFilter ==
  /\ InitState
  /\ config = OutageConfig
  /\ keywords \in KeywordsChoices
  /\ rawTweet \in InputTweets

NextFilter ==
  \/ MatchTweet
  \/ MatchesCategory

SpecFilter == InitFilter /\ [][NextFilter]_vars

\* the priorities of a configuration file that sets them: SECURITY low,
\* GOVERNANCE high; the others have their block without a priority, for
\* which the schema gives MEDIUM
ConfiguredPriority(category) ==
  CASE category = "SECURITY" -> AlertPriority.LOW
    [] category = "GOVERNANCE" -> AlertPriority.HIGH
    [] OTHER -> AlertPriority.MEDIUM

\* the tweet and the TVL handler of SignalProcessor, without cooldowns
SignalConfigChoices ==
  {[ChatConfig EXCEPT !.allowedChatIds = <<"chat1">>],
   [ChatConfig EXCEPT !.allowedChatIds = <<"chat1">>,
                      !.categories = [k \in AlertCategory |->
                                        [@[k] EXCEPT !.priority = ConfiguredPriority(k)]]]}

\* the tweets published on 'collector:tweet': those of one engagement
SignalTweets == {tweet \in InputTweets : tweet.retweetCount = 101 /\ tweet.likeCount = 500}

InitSignal ==
  /\ InitState
  /\ config \in SignalConfigChoices
  /\ keywords \in KeywordsChoices
  /\ rawTweet \in SignalTweets

NextSignal ==
  \/ ProcessTweet
  \/ ProcessTVLData
  \/ ProcessTVLDataResume

SpecSignal == InitSignal /\ [][NextSignal]_vars

\* the event bus alone
InitBus ==
  InitState /\ config = OutageConfig /\ keywords = LoadedKeywords /\ rawTweet = NoTweet

NextBus ==
  \/ \E channel \in Channels : on(channel)
  \/ \E channel \in Channels, handler \in 1..MaxBusCalls : off(channel, handler)
  \/ \E channel \in Channels : emit(channel)

SpecBus == InitBus /\ [][NextBus]_vars

\* the Twitter collector in stream mode, started and stopped
InitStream ==
  InitState /\ config = OutageConfig /\ keywords = LoadedKeywords /\ rawTweet = NoTweet

NextStream ==
  \/ Start("Twitter")
  \/ Stop("Twitter")
  \/ SetupStreamRulesResolve
  \/ SetupStreamRulesReject
  \/ StartStreamResolve
  \/ StartStreamReject
  \/ BackoffElapsed
  \/ StreamError
  \/ StreamData

SpecStream == InitStream /\ [][NextStream]_vars

\* the collectors that poll, started and stopped: the DeFiLlama collector,
\* and the Twitter collector with useFilteredStream false
InitPolling ==
  /\ InitState
  /\ config = [OutageConfig EXCEPT !.useFilteredStream = FALSE]
  /\ keywords = LoadedKeywords
  /\ rawTweet = NoTweet

NextPolling ==
  \/ \E name \in CollectorNames : Start(name)
  \/ \E name \in CollectorNames : Stop(name)
  \/ \E name \in CollectorNames : DoCollectResolve(name)
  \/ \E name \in CollectorNames : DoCollectReject(name)
  \/ \E name \in CollectorNames : IntervalFire(name)

SpecPolling == InitPolling /\ [][NextPolling]_vars

\* the thresholds a configuration file gives the TVL_CHANGE category: those of
\* the schema's default block, none, and some of them
ThresholdChoices ==
  {DefaultThresholds("TVL_CHANGE"),
   DefaultThresholds("SECURITY"),
   [minChangePercent |-> 100],
   [minTvlUsd |-> 2000000, timeframeHours |-> 48],
   [minChangePercent |-> 0, minTvlUsd |-> 0]}

AnalyzeConfigChoices ==
  {[ChatConfig EXCEPT !.allowedChatIds = <<"chat1">>,
                      !.categories["TVL_CHANGE"].thresholds = thresholds] :
     thresholds \in ThresholdChoices}

\* the DeFiLlama collector, the repository and the TVL analysis
InitAnalyze ==
  InitState /\ config \in AnalyzeConfigChoices /\ keywords = LoadedKeywords
            /\ rawTweet = NoTweet

NextAnalyze ==
  \/ Start("DeFiLlama")
  \/ IntervalFire("DeFiLlama")
  \/ DefiLlamaDoCollect
  \/ ProcessTVLDataResume
  \/ Tick

SpecAnalyze == InitAnalyze /\ [][NextAnalyze]_vars

(***************************************************************************)
(* Properties                                                              *)
(***************************************************************************)
Approvals == 1..Len(signalAlert)

ApprovalKey(i) == generateDeduplicationKey(signalAlert[i].alert)

\* a step that is one emitAlert call (every call has a fresh alert id)
IsEmitAlertCall == gateLog' # gateLog

\* conditions of the gate, stated on the history of approvals and the store
GlobalCooldownElapsed ==
  \A i \in Approvals : now - signalAlert[i].time >= config.globalCooldownMs

CategoryCooldownElapsed(category) ==
  \A i \in Approvals :
    signalAlert[i].alert.category = category
      => now - signalAlert[i].time >= config.categories[category].cooldownMs

RecordedWithinWindow(key) ==
  \E row \in alerts :
    row.deduplication_key = key /\ now - row.sent_at < config.deduplicationWindowMs

\* C1: after an approval, every emitAlert call with the same category, source,
\* title and metadata made less than deduplicationWindowMs later is not approved:
\* two approvals of one deduplication key are at least a window apart.
C1_NoReapprovalWithinWindow ==
  \A i, j \in Approvals :
    (i < j /\ ApprovalKey(i) = ApprovalKey(j))
      => signalAlert[j].time - signalAlert[i].time >= config.deduplicationWindowMs

\* C2: any two approved alerts have approval times at least globalCooldownMs apart.
C2_GlobalCooldown ==
  \A i, j \in Approvals :
    i < j => signalAlert[j].time - signalAlert[i].time >= config.globalCooldownMs

\* C2 witness: with an approval inside the global cooldown, an otherwise
\* eligible alert of another category was rejected for the global cooldown.
C2_Witness ==
  /\ config.globalCooldownMs > 0
  /\ Len(signalAlert) = 1
  /\ gateLog.outcome = "global cooldown"
  /\ gateLog.alert.category # signalAlert[1].alert.category
  /\ config.categories[gateLog.alert.category].enabled
  /\ ~RecordedWithinWindow(gateLog.key)

\* C3: the cooldown state changes only in an approving emitAlert call; a
\* rejecting call leaves it unchanged and publishes nothing; an approving call
\* sets lastGlobalAlertTime and the entry of the alert's category to the
\* current time, leaves the other entries alone and publishes the alert.
C3_CooldownFrame ==
  [][ /\ ~IsEmitAlertCall
         => UNCHANGED <<lastGlobalAlertTime, lastCategoryAlertTime, signalAlert>>
      /\ (IsEmitAlertCall /\ gateLog'.outcome # "emitted")
         => UNCHANGED <<lastGlobalAlertTime, lastCategoryAlertTime, signalAlert>>
      /\ (IsEmitAlertCall /\ gateLog'.outcome = "emitted")
         => /\ lastGlobalAlertTime' = now
            /\ DOMAIN lastCategoryAlertTime'
                 = DOMAIN lastCategoryAlertTime \cup {gateLog'.alert.category}
            /\ lastCategoryAlertTime'[gateLog'.alert.category] = now
            /\ \A k \in DOMAIN lastCategoryAlertTime \ {gateLog'.alert.category} :
                 lastCategoryAlertTime'[k] = lastCategoryAlertTime[k]
            /\ signalAlert' = Append(signalAlert, [alert |-> gateLog'.alert, time |-> now])
    ]_vars

\* C3 witness: after an approval, a later call was rejected for the category
\* cooldown and the cooldown state is still the one the approval wrote.
C3_Witness ==
  /\ gateLog.outcome = "category cooldown"
  /\ Len(signalAlert) = 1
  /\ now > signalAlert[1].time
  /\ lastGlobalAlertTime = signalAlert[1].time
  /\ DOMAIN lastCategoryAlertTime = {signalAlert[1].alert.category}
  /\ lastCategoryAlertTime[signalAlert[1].alert.category] = signalAlert[1].time

\* the rejection reason of the first failing check, for a given order of checks
FirstFailing(order, alert) ==
  LET fails(check) ==
        CASE check = "duplicate" -> RecordedWithinWindow(generateDeduplicationKey(alert))
          [] check = "category disabled" -> ~config.categories[alert.category].enabled
          [] check = "global cooldown" -> ~GlobalCooldownElapsed
          [] check = "category cooldown" -> ~CategoryCooldownElapsed(alert.category)
      failing == {i \in 1..Len(order) : fails(order[i])}
  IN IF failing = {} THEN "emitted"
     ELSE order[CHOOSE i \in failing : \A j \in failing : i <= j]

\* C4 as claimed: the checks run in the order duplicate, category enabled,
\* global cooldown, category cooldown, and the logged reason is that of the
\* first failing check in this order.
C4_ClaimedOrder ==
  [][ IsEmitAlertCall
        => gateLog'.outcome
             = FirstFailing(<<"duplicate", "category disabled", "global cooldown",
                              "category cooldown">>, gateLog'.alert) ]_vars

\* C4 amended: the checks run in the order duplicate, global cooldown, category
\* cooldown, category enabled, and the logged reason is that of the first
\* failing check in this order.
C4_CodeOrder ==
  [][ IsEmitAlertCall
        => gateLog'.outcome
             = FirstFailing(<<"duplicate", "global cooldown", "category cooldown",
                              "category disabled">>, gateLog'.alert) ]_vars

\* C4 witness: an alert of a disabled category, submitted during the global
\* cooldown of an earlier approval, was rejected for the global cooldown.
C4_Witness ==
  /\ gateLog.outcome = "global cooldown"
  /\ ~config.categories[gateLog.alert.category].enabled
  /\ Len(signalAlert) = 1
  /\ now - signalAlert[1].time < config.globalCooldownMs

\* C5: no alert of a category configured with enabled = false is published on
\* 'signal:alert', and while TVL_CHANGE is disabled analyze returns no
\* candidates (so processTVLData has nothing to hand to the gate).
C5_DisabledNeverEmitted ==
  /\ \A i \in Approvals : config.categories[signalAlert[i].alert.category].enabled
  /\ ~config.categories["TVL_CHANGE"].enabled
       => (tvlAnalysis.candidates = <<>> /\ tvlPending = <<>>)

\* C5 witness: with TVL_CHANGE disabled, analyze ran on significant changes and
\* a TVL_CHANGE alert that passed every other check was rejected as disabled.
C5_Witness ==
  /\ ~config.categories["TVL_CHANGE"].enabled
  /\ tvlAnalysis.changes # <<>>
  /\ gateLog.alert.category = "TVL_CHANGE"
  /\ gateLog.outcome = "category disabled"

\* C6: the category-cooldown check rejects an alert only for an approval of its
\* own category, and an alert that is not a duplicate, whose category is
\* enabled, with the global cooldown and its own category cooldown elapsed, is
\* approved whatever the cooldowns of other categories.
C6_CategoryCooldownIndependent ==
  [][ IsEmitAlertCall
        => LET alert == gateLog'.alert IN
           /\ gateLog'.outcome = "category cooldown"
                => ~CategoryCooldownElapsed(alert.category)
           /\ ( /\ ~RecordedWithinWindow(generateDeduplicationKey(alert))
                /\ config.categories[alert.category].enabled
                /\ GlobalCooldownElapsed
                /\ CategoryCooldownElapsed(alert.category) )
                => gateLog'.outcome = "emitted" ]_vars

\* C6 witness: the second approval happened while the category cooldown of the
\* first approval, of another category, was still running.
C6_Witness ==
  /\ Len(signalAlert) = 2
  /\ signalAlert[1].alert.category # signalAlert[2].alert.category
  /\ signalAlert[2].time - signalAlert[1].time
       < config.categories[signalAlert[1].alert.category].cooldownMs

Recorded(key) == \E row \in alerts : row.deduplication_key = key

\* C7: once deduplicationWindowMs has elapsed since the time recorded for a
\* deduplication key, an alert with that key is approved again, provided the
\* global cooldown and the cooldown of its category have elapsed and its
\* category is enabled.
C7_ApprovedAfterWindow ==
  [][ IsEmitAlertCall
        => LET alert == gateLog'.alert IN
           ( /\ Recorded(generateDeduplicationKey(alert))
             /\ \A row \in alerts :
                  row.deduplication_key = generateDeduplicationKey(alert)
                    => now - row.sent_at >= config.deduplicationWindowMs
             /\ GlobalCooldownElapsed
             /\ CategoryCooldownElapsed(alert.category)
             /\ config.categories[alert.category].enabled )
             => gateLog'.outcome = "emitted" ]_vars

\* C7 witness: the last approved alert has the key of a record that an earlier
\* alert left exactly one deduplication window before.
C7_Witness ==
  /\ Len(signalAlert) = 2
  /\ gateLog.outcome = "emitted"
  /\ \E row \in alerts :
       /\ row.id = signalAlert[1].alert.id
       /\ row.deduplication_key = ApprovalKey(2)
       /\ signalAlert[2].time - row.sent_at = config.deduplicationWindowMs

\* C8: when the duplicate lookup raises because the store is unavailable,
\* emitAlert treats the alert as not a duplicate and goes on with the other
\* checks: the call does not throw, and an alert that passes them is approved.
C8_FailOpen ==
  [][ (IsEmitAlertCall /\ db # "open")
        => gateLog'.outcome
             = FirstFailing(<<"global cooldown", "category cooldown",
                              "category disabled">>, gateLog'.alert) ]_vars

\* the chats one synchronous stretch of sendAlert examines in this step: the
\* alert, the first position examined and the position it stops at
StretchAlerts ==
  {signalAlert'[i].alert : i \in (1..Len(signalAlert')) \ Approvals}
    \cup {s.alert : s \in sending \ sending'}

StretchStart(alert) ==
  IF \E s \in sending : s.alert = alert
  THEN (CHOOSE s \in sending : s.alert = alert).at + 1 ELSE 1

StretchEnd(alert) ==
  IF \E s \in sending' : s.alert = alert
  THEN (CHOOSE s \in sending' : s.alert = alert).at
  ELSE Len(config.allowedChatIds) + 1

SendCall(alert, p) ==
  [chatId |-> config.allowedChatIds[p], alertId |-> alert.id, category |-> alert.category]

\* C9: sendAlert calls sendMessage for a chat exactly when, at the time it
\* examines the chat, AlertManager.shouldReceiveAlert(chat, alert.category)
\* holds, that is the chat is not paused and subscribed to the category.
C9_PerChatFilter ==
  [][ /\ \A call \in sendCalls' \ sendCalls :
           /\ shouldReceiveAlert(user_settings, call.chatId, call.category)
           /\ ~getOrCreate(user_settings, call.chatId)[call.chatId].is_paused
           /\ call.category \in
                Seq2Set(getOrCreate(user_settings, call.chatId)[call.chatId].subscribed_categories)
      /\ \A alert \in StretchAlerts :
           \A p \in StretchStart(alert)..Len(config.allowedChatIds) :
             config.allowedChatIds[p] # ""
               => /\ p < StretchEnd(alert)
                       => ~shouldReceiveAlert(user_settings, config.allowedChatIds[p],
                                              alert.category)
                  /\ p = StretchEnd(alert)
                       => /\ shouldReceiveAlert(user_settings, config.allowedChatIds[p],
                                                 alert.category)
                          /\ SendCall(alert, p) \in sendCalls' \ sendCalls
    ]_vars

\* C9 witness: an alert was sent to chat2 and not to chat1, which is paused or
\* not subscribed to the alert's category.
C9_Witness ==
  \E call \in sendCalls :
    /\ call.chatId = "chat2"
    /\ [call EXCEPT !.chatId = "chat1"] \notin sendCalls
    /\ "chat1" \in DOMAIN user_settings
    /\ ~shouldReceiveAlert(user_settings, "chat1", call.category)

\* the alerts whose deduplication key the program has computed: the stored
\* records (key computed by save) and the alert of the last emitAlert call
\* (key computed by isDuplicate)
Keyed ==
  { [id |-> row.id, category |-> row.category, source |-> row.source,
     title |-> row.title, metadata |-> row.metadata_json, priority |-> row.priority,
     summary |-> row.summary, details |-> row.details_json,
     key |-> row.deduplication_key] : row \in alerts }
  \cup
  { [id |-> gateLog.alert.id, category |-> gateLog.alert.category,
     source |-> gateLog.alert.source, title |-> gateLog.alert.title,
     metadata |-> JSONStringify(gateLog.alert.metadata),
     priority |-> gateLog.alert.priority, summary |-> gateLog.alert.summary,
     details |-> gateLog.alert.details, key |-> gateLog.key] }

SameKeyFields(x, y, fields) ==
  /\ ("category" \in fields => x.category = y.category)
  /\ ("source" \in fields => x.source = y.source)
  /\ ("title" \in fields => x.title = y.title)
  /\ ("metadata" \in fields => x.metadata = y.metadata)

\* C10: two alerts with the same category, source, title and metadata have the
\* same deduplication key, whatever their id, priority, summary and details,
\* and two alerts that differ in the title only have different keys.
C10_KeyOfFourFields ==
  \A x, y \in Keyed :
    /\ SameKeyFields(x, y, {"category", "source", "title", "metadata"}) => x.key = y.key
    /\ (SameKeyFields(x, y, {"category", "source", "metadata"}) /\ x.title # y.title)
         => x.key # y.key

\* C10 witness: a stored record and the last submitted alert agree on the four
\* fields and differ in id, priority, summary and details, and another pair
\* differs in the title only.
C10_Witness ==
  /\ \E x, y \in Keyed :
       /\ SameKeyFields(x, y, {"category", "source", "title", "metadata"})
       /\ x.id # y.id /\ x.priority # y.priority
       /\ x.summary # y.summary /\ x.details # y.details
  /\ gateLog.outcome = "duplicate"

\* C10 witness for the title: a stored record and the last submitted alert
\* differ in the title only.
C10_TitleWitness ==
  \E x, y \in Keyed :
    SameKeyFields(x, y, {"category", "source", "metadata"}) /\ x.title # y.title

(***************************************************************************)
(* Properties of the keyword filter                                        *)
(***************************************************************************)
KeywordEntries == {keywords.categories[i] : i \in 1..Len(keywords.categories)}

\* the keyword occurs in the text, letter case aside
ContainsKeyword(text, kw) == StringIncludes(toLowerCase(text), toLowerCase(kw))

ContainsAny(text, kws) == \E i \in 1..Len(kws) : ContainsKeyword(text, kws[i])

\* the author is one of the trusted accounts of the entry, letter case aside
Trusted(author, entry) ==
  \E i \in 1..Len(entry.accounts) : toLowerCase(entry.accounts[i]) = toLowerCase(author)

\* the positions of the result that hold an entry for the category
MatchFor(category) ==
  {i \in 1..Len(tweetMatch.matches) : tweetMatch.matches[i].category = category}

\* C11: for every configured category C, a tweet whose case-folded text
\* contains a primary keyword of C and no negative keyword of C gets an entry
\* for C with score > 0 in matchTweet's result.
C11_PrimaryWithoutNegativeMatches ==
  tweetMatch.called
    => \A entry \in KeywordEntries :
         (ContainsAny(rawTweet.text, entry.primary)
            /\ ~ContainsAny(rawTweet.text, entry.negative))
           => \E i \in MatchFor(entry.category) : tweetMatch.matches[i].score > 0

\* C11 witness: a category was returned for a primary keyword that occurs in
\* the text only after case folding, with an untrusted author, while another
\* category was not returned.
C11_Witness ==
  /\ tweetMatch.called
  /\ \E entry \in KeywordEntries :
       /\ ~Trusted(rawTweet.authorUsername, entry)
       /\ entry.negative # <<>>
       /\ ~ContainsAny(rawTweet.text, entry.negative)
       /\ \E i \in 1..Len(entry.primary) :
            /\ ContainsKeyword(rawTweet.text, entry.primary[i])
            /\ ~StringIncludes(rawTweet.text, entry.primary[i])
       /\ MatchFor(entry.category) # {}
  /\ \E entry \in KeywordEntries : MatchFor(entry.category) = {}

EntryOf(category) == CHOOSE entry \in KeywordEntries : entry.category = category

\* C13: a category is returned only if the tweet matches one of its primary
\* keywords or its author is one of its trusted accounts; a tweet from a trusted
\* account with no primary and no negative match is returned, with score >= 20.
C13_PrimaryOrTrusted ==
  tweetMatch.called
    => /\ \A i \in 1..Len(tweetMatch.matches) :
            LET entry == EntryOf(tweetMatch.matches[i].category) IN
              \/ ContainsAny(rawTweet.text, entry.primary)
              \/ Trusted(rawTweet.authorUsername, entry)
       /\ \A entry \in KeywordEntries :
            ( /\ Trusted(rawTweet.authorUsername, entry)
              /\ ~ContainsAny(rawTweet.text, entry.primary)
              /\ ~ContainsAny(rawTweet.text, entry.negative) )
              => \E i \in MatchFor(entry.category) : tweetMatch.matches[i].score >= 20

\* C13 witness: a category was returned for the trusted author alone (20 points
\* and 5 for the likes), and another category, of which the tweet passes only
\* the same engagement threshold, was not returned.
C13_Witness ==
  /\ tweetMatch.called
  /\ \E entry \in KeywordEntries :
       /\ Trusted(rawTweet.authorUsername, entry)
       /\ ~ContainsAny(rawTweet.text, entry.primary)
       /\ \E i \in MatchFor(entry.category) : tweetMatch.matches[i].score = 25
  /\ \E entry \in KeywordEntries :
       /\ ~Trusted(rawTweet.authorUsername, entry)
       /\ ~ContainsAny(rawTweet.text, entry.primary)
       /\ ~ContainsAny(rawTweet.text, entry.negative)
       /\ rawTweet.likeCount > 500
       /\ MatchFor(entry.category) = {}

\* the position of a category in the keyword configuration
Declared(category) ==
  CHOOSE k \in 1..Len(keywords.categories) : keywords.categories[k].category = category

\* C14: matchTweet's result is in non-increasing score order, has at most one
\* entry per category, and entries of equal score are in the order in which
\* their categories are declared in the keyword configuration.
C14_SortedStable ==
  tweetMatch.called
    => \A i, j \in 1..Len(tweetMatch.matches) :
         i < j => /\ tweetMatch.matches[i].score >= tweetMatch.matches[j].score
                  /\ tweetMatch.matches[i].category # tweetMatch.matches[j].category
                  /\ tweetMatch.matches[i].score = tweetMatch.matches[j].score
                       => Declared(tweetMatch.matches[i].category)
                            < Declared(tweetMatch.matches[j].category)

\* C14 witness: three categories were returned, the one declared last first,
\* and the two others with equal scores in the order of their declaration.
C14_Witness ==
  /\ tweetMatch.called
  /\ Len(tweetMatch.matches) = 3
  /\ Declared(tweetMatch.matches[1].category) = 3
  /\ tweetMatch.matches[1].score > tweetMatch.matches[2].score
  /\ tweetMatch.matches[2].score = tweetMatch.matches[3].score

\* C15: matchesCategory(text, C) is true exactly when C has a keyword
\* configuration, no negative keyword of C occurs in the text and a primary
\* keyword of C does; when it is true for a tweet's text, matchTweet on that
\* tweet returns C.
C15_MatchesCategory ==
  categoryMatch.called
    => /\ categoryMatch.result
            = ( /\ \E entry \in KeywordEntries : entry.category = categoryMatch.category
                /\ ~ContainsAny(rawTweet.text, EntryOf(categoryMatch.category).negative)
                /\ ContainsAny(rawTweet.text, EntryOf(categoryMatch.category).primary) )
       /\ (categoryMatch.result /\ tweetMatch.called)
            => MatchFor(categoryMatch.category) # {}

\* C15 witness: matchesCategory answered true for a category that matchTweet
\* returned for the same text, while the text holds a primary and a negative
\* keyword of another category.
C15_Witness ==
  /\ categoryMatch.called
  /\ categoryMatch.result
  /\ tweetMatch.called
  /\ MatchFor(categoryMatch.category) # {}
  /\ \E entry \in KeywordEntries :
       /\ ContainsAny(rawTweet.text, entry.primary)
       /\ ContainsAny(rawTweet.text, entry.negative)

(***************************************************************************)
(* Properties of the protocol repository                                   *)
(***************************************************************************)
Tracked == DOMAIN protocol_state

Stored24h(slug) == JSONParseHistory(protocol_state[slug].tvl_history_24h)

Stored7d(slug) == JSONParseHistory(protocol_state[slug].tvl_history_7d)

\* the last upsert call for the protocol
LastUpsert(slug) ==
  LET calls == {k \in 1..Len(upsertLog) : upsertLog[k].slug = slug}
  IN upsertLog[CHOOSE k \in calls : \A l \in calls : l <= k]

\* C16: after every upsert the 24h history of the protocol holds at most 288
\* points (History24hLimit here) and the 7d history at most 2016
\* (History7dLimit), and every stored point is strictly later than the insert
\* time minus 24 hours, respectively 7 days, also when the clock was set back
\* between upserts.
C16_HistoryBounded ==
  \A slug \in Tracked :
    /\ Len(Stored24h(slug)) <= History24hLimit
    /\ Len(Stored7d(slug)) <= History7dLimit
    /\ \A i \in 1..Len(Stored24h(slug)) :
         Stored24h(slug)[i].timestamp > LastUpsert(slug).time - Ms24h
    /\ \A i \in 1..Len(Stored7d(slug)) :
         Stored7d(slug)[i].timestamp > LastUpsert(slug).time - Ms7d

\* C16 witness: after three upserts inside seven days, with the clock set back
\* in between, the 7d history is at its limit and holds a point later than the
\* last insert time.
C16_Witness ==
  /\ "lendx" \in Tracked
  /\ Len(upsertLog) = History7dLimit + 1
  /\ \A k \in 1..Len(upsertLog) : upsertLog[k].time > LastUpsert("lendx").time - Ms7d
  /\ Len(Stored7d("lendx")) = History7dLimit
  /\ \E i \in 1..Len(Stored7d("lendx")) :
       Stored7d("lendx")[i].timestamp > LastUpsert("lendx").time

\* the history the call that has just returned had to read
Selected ==
  IF tvlChange.slug \notin Tracked THEN <<>>
  ELSE IF tvlChange.hoursAgo <= 24 THEN Stored24h(tvlChange.slug)
  ELSE Stored7d(tvlChange.slug)

Cutoff == now - HoursMs(tvlChange.hoursAgo)

\* the stored points inside the lookback of the call
InLookback == {i \in 1..Len(Selected) : Selected[i].timestamp >= Cutoff}

\* C17: a result of calculateTvlChange has as previousTvl the value of the
\* earliest stored point with timestamp >= now - hoursAgo of the history its
\* hoursAgo selects, as currentTvl the most recently upserted value,
\* changeAbsolute = currentTvl - previousTvl and
\* changePercent = changeAbsolute / previousTvl * 100.
C17_PreviousIsEarliestInLookback ==
  (tvlChange.called /\ tvlChange.result # <<>>)
    => LET result == tvlChange.result[1] IN
       /\ \E i \in InLookback :
            /\ \A j \in InLookback : Selected[i].timestamp <= Selected[j].timestamp
            /\ result.previousTvl = Selected[i].tvl
       /\ result.currentTvl = LastUpsert(tvlChange.slug).tvl
       /\ result.changeAbsolute = result.currentTvl - result.previousTvl
       /\ result.changePercent * result.previousTvl = result.changeAbsolute * 100

\* C18 as claimed: calculateTvlChange returns none whenever no stored point of
\* the selected history has a timestamp at or before now - hours.
C18_NoneWithoutPointBeforeLookback ==
  (tvlChange.called /\ \A i \in 1..Len(Selected) : Selected[i].timestamp > Cutoff)
    => tvlChange.result = <<>>

\* C18 amended: calculateTvlChange returns none whenever no stored point of the
\* selected history has a timestamp at or after now - hours.
C18_NoneWithoutPointInLookback ==
  (tvlChange.called /\ \A i \in 1..Len(Selected) : Selected[i].timestamp < Cutoff)
    => tvlChange.result = <<>>

\* C18 witness: the call found two stored points with non-zero values, both
\* older than the lookback, and returned none.
C18_Witness ==
  /\ tvlChange.called
  /\ Len(Selected) >= 2
  /\ \A i \in 1..Len(Selected) : Selected[i].timestamp < Cutoff /\ Selected[i].tvl # 0
  /\ tvlChange.result = <<>>

\* C19: calculateTvlChange returns none when the protocol is untracked, when
\* the selected history has fewer than 2 points, or when the value of the
\* selected previous point (the first stored point inside the lookback) is 0;
\* no change is computed from a previous value of 0.
C19_NoneForMissingData ==
  tvlChange.called
    => /\ ( \/ tvlChange.slug \notin Tracked
            \/ Len(Selected) < 2
            \/ \E i \in InLookback :
                 /\ \A j \in InLookback : i <= j
                 /\ Selected[i].tvl = 0 )
            => tvlChange.result = <<>>
       /\ tvlChange.result # <<>> => tvlChange.result[1].previousTvl # 0

\* C19 witness: the call found a history of two points whose first point inside
\* the lookback has the value 0, with a current value that is not 0, and
\* returned none.
C19_Witness ==
  /\ tvlChange.called
  /\ tvlChange.slug \in Tracked
  /\ Len(Selected) >= 2
  /\ \E i \in InLookback : (\A j \in InLookback : i <= j) /\ Selected[i].tvl = 0
  /\ protocol_state[tvlChange.slug].last_tvl # 0
  /\ tvlChange.result = <<>>

\* the snapshots of the protocol went from 1,000,000 to 0 at upsert k
DropToZero(slug, k) ==
  /\ k \in 2..Len(upsertLog)
  /\ upsertLog[k - 1].slug = slug /\ upsertLog[k - 1].tvl = 1000000
  /\ upsertLog[k].slug = slug /\ upsertLog[k].tvl = 0

\* C20 as claimed: once the snapshot value of a protocol has dropped from
\* 1,000,000 to 0, calculateTvlChange returns none, right after the zero
\* snapshot and after any later snapshots.
C20_NoneAfterDropToZero ==
  (tvlChange.called /\ \E k \in 1..Len(upsertLog) : DropToZero(tvlChange.slug, k))
    => tvlChange.result = <<>>

\* C20 amended: after a drop from 1,000,000 to 0, calculateTvlChange right
\* after the zero snapshot returns changePercent = -100 when the first stored
\* point inside the lookback is the 1,000,000 snapshot, and it returns none,
\* whatever the later snapshots, whenever the first stored point inside the
\* lookback has the value 0.
C20_DropToZero ==
  (tvlChange.called /\ \E k \in 1..Len(upsertLog) : DropToZero(tvlChange.slug, k))
    => /\ ( /\ DropToZero(tvlChange.slug, Len(upsertLog))
            /\ \E i \in InLookback :
                 (\A j \in InLookback : i <= j) /\ Selected[i].tvl = 1000000 )
            => /\ tvlChange.result # <<>>
               /\ tvlChange.result[1].previousTvl = 1000000
               /\ tvlChange.result[1].currentTvl = 0
               /\ tvlChange.result[1].changePercent = -100
       /\ (\E i \in InLookback : (\A j \in InLookback : i <= j) /\ Selected[i].tvl = 0)
            => tvlChange.result = <<>>

\* C20 witness: after the drop a snapshot with a non-zero value was ingested,
\* the zero snapshot is the first stored point inside the lookback, and the
\* call returned none.
C20_Witness ==
  /\ tvlChange.called
  /\ Len(upsertLog) = 3
  /\ DropToZero(tvlChange.slug, 2)
  /\ upsertLog[3].tvl # 0
  /\ Len(Selected) = 2
  /\ InLookback = {1, 2}
  /\ Selected[1].tvl = 0
  /\ tvlChange.result = <<>>

(***************************************************************************)
(* Properties of the TVL analysis                                          *)
(***************************************************************************)
\* the tier a change of changePercent is said to get
ClaimedTier(changePercent) ==
  IF Abs(changePercent) >= 100 THEN AlertPriority.CRITICAL
  ELSE IF Abs(changePercent) >= 50 THEN AlertPriority.HIGH
  ELSE AlertPriority.MEDIUM

\* C21: the priority of every alert that analyze builds is tiered by the
\* magnitude m of the change: CRITICAL when m >= 100, HIGH when 50 <= m < 100,
\* MEDIUM otherwise.
C21_PriorityTiers ==
  \A i \in 1..Len(tvlAnalysis.candidates) :
    tvlAnalysis.candidates[i].priority
      = ClaimedTier(tvlAnalysis.changes[i].changePercent)

(***************************************************************************)
(* Properties of upsert                                                    *)
(***************************************************************************)
\* history with snapshot appended, without the points not later than cutoff
Surviving(history, snapshot, cutoff) ==
  SelectSeq(Append(history, snapshot), LAMBDA s : s.timestamp > cutoff)

\* kept is what is left of history when only points at its front were dropped,
\* and points were dropped only to bring it down to cap
FrontDropped(kept, history, cap) ==
  \E k \in 0..Len(history) :
    /\ kept = SubSeq(history, k + 1, Len(history))
    /\ k > 0 => Len(kept) = cap

\* C28: every upsert appends the new snapshot to both histories of the
\* protocol; after the pruning the new snapshot is the last element of both
\* and its value is the stored last_tvl; a history over its cap loses its
\* oldest points in insertion order, so no snapshot inside the window and the
\* cap is lost or overwritten by a later upsert.
C28_UpsertAppends ==
  [][upsertLog' # upsertLog =>
       LET call == upsertLog'[Len(upsertLog')]
           snapshot == [timestamp |-> call.time, tvl |-> call.tvl]
           tracked == call.slug \in DOMAIN protocol_state
           old24h == IF tracked THEN Stored24h(call.slug) ELSE <<>>
           old7d == IF tracked THEN Stored7d(call.slug) ELSE <<>>
           new24h == JSONParseHistory(protocol_state'[call.slug].tvl_history_24h)
           new7d == JSONParseHistory(protocol_state'[call.slug].tvl_history_7d)
       IN /\ new24h # <<>> /\ new24h[Len(new24h)] = snapshot
          /\ new7d # <<>> /\ new7d[Len(new7d)] = snapshot
          /\ protocol_state'[call.slug].last_tvl = snapshot.tvl
          /\ FrontDropped(new24h, Surviving(old24h, snapshot, call.time - Ms24h),
                          History24hLimit)
          /\ FrontDropped(new7d, Surviving(old7d, snapshot, call.time - Ms7d),
                          History7dLimit)]_vars

\* C28 witness: the third upsert inside seven days brought the 7d history over
\* its cap; the history holds the second and the third snapshot, in that
\* order, and the first one, of another value, was dropped.
C28_Witness ==
  /\ Len(upsertLog) = History7dLimit + 1
  /\ \A k \in 1..Len(upsertLog) :
       upsertLog[k].time > upsertLog[Len(upsertLog)].time - Ms7d
  /\ upsertLog[1].tvl # upsertLog[2].tvl
  /\ Stored7d("lendx") =
       [i \in 1..History7dLimit |->
          [timestamp |-> upsertLog[i + 1].time, tvl |-> upsertLog[i + 1].tvl]]
  /\ protocol_state["lendx"].last_tvl = upsertLog[Len(upsertLog)].tvl

(***************************************************************************)
(* Properties of the score                                                 *)
(***************************************************************************)
\* the number of the keywords that occur in the text, letter case aside
MatchCount(text, kws) == Cardinality({k \in 1..Len(kws) : ContainsKeyword(text, kws[k])})

\* the configured hashtag without its leading '#'
StripLeadingHash(tag) == IF tag # <<>> /\ Head(tag) = "#" THEN Tail(tag) ELSE tag

\* the number of the configured hashtags that equal a hashtag of the tweet,
\* letter case and leading '#' aside
HashtagCount(tweet, tags) ==
  Cardinality({k \in 1..Len(tags) :
                 \E i \in 1..Len(tweet.hashtags) :
                   toLowerCase(tweet.hashtags[i]) = toLowerCase(StripLeadingHash(tags[k]))})

ClaimedScore(tweet, entry) ==
  10 * MatchCount(tweet.text, entry.primary)
    + 5 * MatchCount(tweet.text, entry.secondary)
    + 3 * HashtagCount(tweet, entry.hashtags)
    + (IF Trusted(tweet.authorUsername, entry) THEN 20 ELSE 0)
    + (IF tweet.retweetCount > 100 THEN 5 ELSE 0)
    + (IF tweet.likeCount > 500 THEN 5 ELSE 0)
    - 50 * MatchCount(tweet.text, entry.negative)

SubscribedBefore(n, channel) ==
  {k \in 1..(n - 1) :
     /\ busLog[k].op = "on"
     /\ busLog[k].channel = channel
     /\ ~\E j \in (k + 1)..(n - 1) :
           busLog[j].op = "off" /\ busLog[j].handler = busLog[k].handler}

\* the elements of a set of numbers, from the smallest
Ascending(S) ==
  CHOOSE f \in [1..Cardinality(S) -> S] :
    \A i, j \in 1..Cardinality(S) : i < j => f[i] < f[j]

\* the payloads handler was called with, from the first call
Received(handler) ==
  LET at == Ascending({k \in BusCalls("emit") : Includes(busLog[k].calls, handler)})
  IN [i \in 1..Len(at) |-> busLog[at[i]].payload]

\* C24: emit(channel, payload) calls every handler subscribed to the channel
\* at that moment, once each and in the order of subscription, and no handler
\* of another channel; a handler receives the payloads of the emits on its
\* channel in the order of the emits, and none that was emitted before it
\* subscribed.
C24_EmitDelivers ==
  /\ \A n \in BusCalls("emit") :
       LET subscribed == Ascending(SubscribedBefore(n, busLog[n].channel))
       IN busLog[n].calls = [i \in 1..Len(subscribed) |-> busLog[subscribed[i]].handler]
  /\ \A k \in BusCalls("on") :
       LET mine == Ascending({n \in BusCalls("emit") :
                               k \in SubscribedBefore(n, busLog[n].channel)})
       IN Received(busLog[k].handler) = [i \in 1..Len(mine) |-> busLog[mine[i]].payload]

\* C24 witness: a channel with a handler had an emit, got a second handler and
\* had another emit, while the other channel has a handler too: the first
\* handler received both payloads, the second only the later one, the handler
\* of the other channel none.
C24_Witness ==
  \E c \in Channels, d \in Channels :
    /\ c # d
    /\ Len(listeners[c]) = 2
    /\ Len(listeners[d]) = 1
    /\ Len(Received(listeners[c][1])) = 2
    /\ Len(Received(listeners[c][2])) = 1
    /\ Received(listeners[c][2])[1] = Received(listeners[c][1])[2]
    /\ Received(listeners[d][1]) = <<>>

(***************************************************************************)
(* Properties of the collectors                                            *)
(***************************************************************************)
\* C29: with useFilteredStream false, TwitterCollector.start() falls back to
\* polling: once it has returned, the initial collection has called doCollect
\* and the interval timer that calls collect() is set (until stop() clears it).
C29_PollingFallback ==
  (~config.useFilteredStream /\ collectors["Twitter"].started)
    => /\ collectors["Twitter"].doCollectCalls >= 1
       /\ collectors["Twitter"].isRunning => collectors["Twitter"].intervalId

(***************************************************************************)
(* Properties of processTweet and of the order of the handlers             *)
(***************************************************************************)
\* C23: the alert built for a tweet has priority CRITICAL when its category is
\* SECURITY and the author is a trusted account of SECURITY, whatever priority
\* is configured; otherwise it has the configured priority of its category
\* (MEDIUM where none is configured).
C23_TweetPriority ==
  \A i \in 1..Len(tweetSubmitted.alerts) :
    LET alert == tweetSubmitted.alerts[i]
        configured == config.categories[alert.category].priority
    IN alert.priority =
         IF alert.category = "SECURITY"
              /\ Trusted(rawTweet.authorUsername, EntryOf("SECURITY"))
         THEN AlertPriority.CRITICAL
         ELSE IF configured = 0 THEN AlertPriority.MEDIUM ELSE configured

\* C23 witness: SECURITY is configured LOW and the tweet of a trusted account
\* was submitted as a CRITICAL SECURITY alert.
C23_Witness ==
  /\ config.categories["SECURITY"].priority = AlertPriority.LOW
  /\ Len(tweetSubmitted.alerts) = 1
  /\ tweetSubmitted.alerts[1].category = "SECURITY"
  /\ tweetSubmitted.alerts[1].priority = AlertPriority.CRITICAL
  /\ Trusted(rawTweet.authorUsername, EntryOf("SECURITY"))

\* C23 witness: SECURITY is configured LOW and the tweet of an account that is
\* not trusted was submitted as a LOW SECURITY alert.
C23_WitnessConfigured ==
  /\ Len(tweetSubmitted.alerts) = 1
  /\ tweetSubmitted.alerts[1].category = "SECURITY"
  /\ tweetSubmitted.alerts[1].priority = AlertPriority.LOW
  /\ ~Trusted(rawTweet.authorUsername, EntryOf("SECURITY"))

\* C25: while a batch of TVL alerts has alerts left, the last admission
\* decision made is that of the alert of the batch just before the next one:
\* no alert of another event is gated between two alerts of a batch, and the
\* tweet handler has made its decision when it has run.
C25_EventsInOrder ==
  /\ tvlPending # <<>> => gateLog.alert.id = Head(tvlPending).id - 1
  /\ tvlPending # <<>> => \E i \in 1..Len(tvlAnalysis.candidates) :
                             tvlAnalysis.candidates[i] = gateLog.alert
  /\ \A i \in 1..Len(tweetSubmitted.alerts) :
       gateLog.alert.id >= tweetSubmitted.alerts[i].id

\* C25 witness: a batch of two TVL alerts was gated to its end, the second
\* alert after the await, and the tweet that arrived later was gated after it.
C25_Witness ==
  /\ Len(tvlAnalysis.candidates) = 2
  /\ tvlPending = <<>>
  /\ Len(tweetSubmitted.alerts) = 1
  /\ tweetSubmitted.alerts[1].id = tvlAnalysis.candidates[2].id + 1
  /\ gateLog.alert = tweetSubmitted.alerts[1]

C30_WitnessRetweet ==
  /\ tweetSubmitted.called
  /\ rawTweet.isRetweet
  /\ matchTweet(rawTweet) # <<>>
  /\ tweetSubmitted.alerts = <<>>

(***************************************************************************)
(* C22, C26: the TVL analysis over the repository                          *)
(***************************************************************************)
\* the tracked protocols the claim names: current value at least minTvlUsd,
\* a change over the lookback, and |changePercent| at least minChangePercent
ClaimedSignificant(table, thresholds) ==
  {slug \in DOMAIN table :
     /\ table[slug].last_tvl >= thresholds.minTvlUsd
     /\ calculateTvlChangeOn(table, slug, thresholds.timeframeHours) # <<>>
     /\ Abs(calculateTvlChangeOn(table, slug, thresholds.timeframeHours)[1].changePercent)
          >= thresholds.minChangePercent}

\* results lists the claimed protocols, each once with the change
\* calculateTvlChange gives it, largest |changePercent| first
ReturnedAsClaimed(table, thresholds, results) ==
  /\ {results[i].slug : i \in 1..Len(results)} = ClaimedSignificant(table, thresholds)
  /\ Len(results) = Cardinality(ClaimedSignificant(table, thresholds))
  /\ \A i \in 1..Len(results) :
       /\ results[i].name = table[results[i].slug].name
       /\ [previousTvl |-> results[i].previousTvl, currentTvl |-> results[i].currentTvl,
           changePercent |-> results[i].changePercent,
           changeAbsolute |-> results[i].changeAbsolute]
          = calculateTvlChangeOn(table, results[i].slug, thresholds.timeframeHours)[1]
  /\ \A i, j \in 1..Len(results) :
       i < j => Abs(results[i].changePercent) >= Abs(results[j].changePercent)

\* this step is a collection of the DeFiLlama collector
Collected ==
  collectors'["DeFiLlama"].totalCollections
    = collectors["DeFiLlama"].totalCollections + 1

\* C22: getSignificantChanges(minChangePercent, minTvlUsd, hoursAgo) returns
\* exactly the tracked protocols whose current value is at least minTvlUsd, for
\* which calculateTvlChange yields a result with |changePercent| at least
\* minChangePercent, each once, ordered by |changePercent| non-increasing
C22_SignificantChanges ==
  [][Collected => ReturnedAsClaimed(protocol_state', tvlAnalysis'.thresholds,
                                    tvlAnalysis'.changes)]_vars

\* two protocols are returned, the larger change first although SwapY's
\* change is the larger one
C22_Witness ==
  /\ tvlAnalysis.called
  /\ Len(tvlAnalysis.changes) = 2
  /\ tvlAnalysis.changes[1].slug = "swapy"
  /\ Abs(tvlAnalysis.changes[1].changePercent) > Abs(tvlAnalysis.changes[2].changePercent)

\* a tracked protocol with a change is left out for its current value or for
\* the size of its change
C22_WitnessLeftOut ==
  /\ tvlAnalysis.called
  /\ upsertLog # <<>> /\ upsertLog[Len(upsertLog)].time = now
  /\ Len(tvlAnalysis.changes) = 1
  /\ \A slug \in {"lendx", "swapy"} :
       calculateTvlChange(slug, tvlAnalysis.thresholds.timeframeHours) # <<>>

\* the threshold the claim has analyze use for a name
ClaimedThreshold(name) ==
  IF name \in DOMAIN config.categories["TVL_CHANGE"].thresholds
  THEN config.categories["TVL_CHANGE"].thresholds[name]
  ELSE DefaultThresholds("TVL_CHANGE")[name]

\* C26: TVL analysis uses every configured threshold of the TVL_CHANGE
\* category, and the defaults minChangePercent 10, minTvlUsd 1000000 and
\* timeframeHours 24 only for thresholds that are not configured
C26_ConfiguredThresholds ==
  tvlAnalysis.called =>
    \A name \in {"minChangePercent", "minTvlUsd", "timeframeHours"} :
      tvlAnalysis.thresholds[name] = ClaimedThreshold(name)

\* the lists of categories without a repetition
DistinctCategories ==
  {categories \in UNION {[1..n -> AlertCategory] : n \in 0..Len(ALL_CATEGORIES)} :
     \A i, j \in 1..Len(categories) : categories[i] = categories[j] => i = j}

\* the table user_settings as earlier commands of chat1 have left it: no row,
\* or a row with the categories in the order of its subscriptions
SettingsTables ==
  {<<>>} \cup
  {[chatId \in {"chat1"} |-> [subscribed_categories |-> categories, is_paused |-> paused]] :
     categories \in DistinctCategories, paused \in BOOLEAN}

\* the SettingsRepository alone
InitSettings ==
  /\ InitProcess
  /\ db = "open"
  /\ user_settings \in SettingsTables
  /\ protocol_state = <<>>
  /\ listeners = NoListeners
  /\ main = "ready"
  /\ config = ChatConfig
  /\ keywords = LoadedKeywords
  /\ rawTweet = NoTweet

NextSettings ==
  \/ \E chatId \in ChatIds, category \in InputCategories :
       /\ subscribe(chatId, category)
       /\ Returned("subscribe", chatId, category, subscribeReturns(chatId, category))
  \/ \E chatId \in ChatIds, category \in InputCategories :
       /\ unsubscribe(chatId, category)
       /\ Returned("unsubscribe", chatId, category, unsubscribeReturns(chatId, category))
  \/ \E chatId \in ChatIds, paused \in BOOLEAN :
       /\ setPaused(chatId, paused)
       /\ Returned("setPaused", chatId, "", FALSE)

SpecSettings == InitSettings /\ [][NextSettings]_vars

\* the table protocol_state as an earlier run of the process has left it in
\* the database file: empty, or with the row upsert writes for an untracked
\* protocol
PersistedTables ==
  {<<>>,
   [slug \in {"swapy"} |->
      [slug |-> slug, name |-> "SwapY", last_tvl |-> 1000000,
       last_checked_at |-> StartTime,
       tvl_history_24h |->
         JSONStringifyHistory(<<[timestamp |-> StartTime, tvl |-> 1000000]>>),
       tvl_history_7d |->
         JSONStringifyHistory(<<[timestamp |-> StartTime, tvl |-> 1000000]>>)]]}

\* the DeFiLlama poll cycle, with its failures, on a database that may hold
\* rows of an earlier run; one configuration
InitCycle ==
  /\ InitProcess
  /\ db = "open"
  /\ user_settings = <<>>
  /\ protocol_state \in PersistedTables
  /\ listeners = NoListeners
  /\ main = "ready"
  /\ config = [ChatConfig EXCEPT !.allowedChatIds = <<"chat1">>]
  /\ keywords = LoadedKeywords
  /\ rawTweet = NoTweet

NextCycle ==
  \/ Start("DeFiLlama")
  \/ IntervalFire("DeFiLlama")
  \/ DefiLlamaDoCollect
  \/ DoCollectReject("DeFiLlama")
  \/ ProcessTVLDataResume
  \/ Tick

SpecCycle == InitCycle /\ [][NextCycle]_vars

(***************************************************************************)
(* main(): the components are constructed, the bot is launched, the        *)
(* collectors are started; SIGINT / SIGTERM shut the process down          *)
(***************************************************************************)
\* the channels of the event bus that main() and the components it builds use
StartupChannels ==
  {"collector:tvl", "collector:tweet", "collector:price", "signal:alert",
   "alert:sent", "alert:failed", "system:ready", "system:shutdown"}

\* mutant of MainOrder: the collectors are started before the components
\* that listen to them are constructed
MainOrder_CollectorsFirst ==
  <<"initialize", "startAll", "awaitStartAll", "getSignalProcessor",
    "getAlertManager", "getTelegramBot", "launch", "ready">>

\* the statements of main() in their order; "launch" and "awaitStartAll" are
\* its awaits, at "ready" it has registered the shutdown handler
MainOrder ==
  <<"initialize", "getSignalProcessor", "getAlertManager", "getTelegramBot",
    "launch", "startAll", "awaitStartAll", "ready">>

MainAfter(at) ==
  MainOrder[(CHOOSE i \in 1..Len(MainOrder) : MainOrder[i] = at) + 1]

MainStep(at) ==
  /\ main = at
  /\ main' = MainAfter(at)

MainFrame ==
  /\ UNCHANGED <<now, config, lastGlobalAlertTime, lastCategoryAlertTime, alerts,
                 user_settings, sending, tvlAnalysis, tvlPending, signalAlert, gateLog,
                 sendCalls, deliveryEvents, commands, settingsCall, outages, nextId>>
  /\ UNCHANGED <<filterVars, protocolVars>>

RECURSIVE onEach(_, _, _)
\* the bus after a constructor has called eventBus.on for each of the channels
onEach(ls, log, channels) ==
  IF channels = <<>> THEN [listeners |-> ls, busLog |-> log]
  ELSE LET handler == Cardinality({k \in 1..Len(log) : log[k].op = "on"}) + 1 IN
         onEach([ls EXCEPT ![Head(channels)] = Append(@, handler)],
                Append(log, [op |-> "on", channel |-> Head(channels),
                             handler |-> handler, payload |-> 0, calls |-> <<>>]),
                Tail(channels))

Construct(channels) ==
  \E bus \in {onEach(listeners, busLog, channels)} :
    /\ listeners' = bus.listeners
    /\ busLog' = bus.busLog

\* eventBus.emit of main(): 'system:ready', 'system:shutdown'
mainEmit(channel) ==
  busLog' = Append(busLog, [op |-> "emit", channel |-> channel, handler |-> 0,
                            payload |-> Cardinality(BusCalls("emit")) + 1,
                            calls |-> emitCalls(channel)])

\* database.initialize()
MainInitialize ==
  /\ MainStep("initialize")
  /\ db' = "open"
  /\ UNCHANGED <<listeners, busLog, collectors>>
  /\ MainFrame

\* getSignalProcessor(): the constructor subscribes to the collectors' data
GetSignalProcessor ==
  /\ MainStep("getSignalProcessor")
  /\ Construct(<<"collector:tvl", "collector:tweet", "collector:price">>)
  /\ UNCHANGED <<db, collectors>>
  /\ MainFrame

\* getAlertManager(): the constructor subscribes to the delivery events
GetAlertManager ==
  /\ MainStep("getAlertManager")
  /\ Construct(<<"alert:sent", "alert:failed">>)
  /\ UNCHANGED <<db, collectors>>
  /\ MainFrame

\* getTelegramBot(): the constructor subscribes to 'signal:alert'; then
\* telegramBot.start() up to `await this.bot.launch()`
GetTelegramBot ==
  /\ MainStep("getTelegramBot")
  /\ Construct(<<"signal:alert">>)
  /\ UNCHANGED <<db, collectors>>
  /\ MainFrame

\* bot.launch() has resolved
LaunchResolve ==
  /\ MainStep("launch")
  /\ UNCHANGED <<db, listeners, busLog, collectors>>
  /\ MainFrame

\* bot.launch() has rejected: main() logs the error and calls process.exit(1)
LaunchReject ==
  /\ main = "launch"
  /\ main' = "exited"
  /\ UNCHANGED <<db, listeners, busLog, collectors>>
  /\ MainFrame

\* collectorManager.startAll(): start() of every collector up to its first await
StartAll ==
  /\ MainStep("startAll")
  /\ collectors' = [name \in CollectorNames |->
                      IF name = "Twitter" THEN twitterStart(collectors[name])
                      ELSE baseStart(collectors[name])]
  /\ UNCHANGED <<db, listeners, busLog>>
  /\ MainFrame

\* start() of the collector has returned or thrown
StartSettled(c) ==
  /\ \A i \in 1..Len(c.pending) : c.pending[i] # "start"
  /\ \A i \in 1..Len(c.chains) : ~c.chains[i].fromStart

\* every start() has settled: 'system:ready', the shutdown handler is registered
StartAllResolve ==
  /\ MainStep("awaitStartAll")
  /\ MicrotasksDrained
  /\ \A name \in CollectorNames : StartSettled(collectors[name])
  /\ mainEmit("system:ready")
  /\ UNCHANGED <<db, listeners, collectors>>
  /\ MainFrame

\* process.exit: what the collector was awaiting is gone with the process
exited(c) ==
  [c EXCEPT !.pending = <<>>, !.chains = <<>>]

\* SIGINT or SIGTERM: stopAll, the bot is stopped, the database is closed,
\* process.exit(0)
Shutdown ==
  /\ main = "ready"
  /\ MicrotasksDrained
  /\ main' = "exited"
  /\ mainEmit("system:shutdown")
  /\ collectors' = [name \in CollectorNames |->
                      IF name = "Twitter" THEN exited(twitterStop(collectors[name]))
                      ELSE exited(baseStop(collectors[name]))]
  /\ db' = "null"
  /\ UNCHANGED listeners
  /\ MainFrame

\* the process from its first statement, for one configuration
InitStartup ==
  /\ InitProcess
  /\ db = "null"
  /\ user_settings = <<>>
  /\ protocol_state = <<>>
  /\ listeners = [channel \in StartupChannels |-> <<>>]
  /\ main = MainOrder[1]
  /\ config = OutageConfig
  /\ keywords = LoadedKeywords
  /\ rawTweet = NoTweet

\* the sendMessage calls of the bot stay pending
NextStartup ==
  \/ MainInitialize
  \/ GetSignalProcessor
  \/ GetAlertManager
  \/ GetTelegramBot
  \/ LaunchResolve
  \/ LaunchReject
  \/ StartAll
  \/ StartAllResolve
  \/ Shutdown
  \/ IntervalFire("DeFiLlama")
  \/ DefiLlamaDoCollect
  \/ DoCollectReject("DeFiLlama")
  \/ ProcessTVLDataResume
  \/ SetupStreamRulesResolve
  \/ SetupStreamRulesReject
  \/ StartStreamResolve
  \/ StreamData
  \/ Tick

SpecStartup == InitStartup /\ [][NextStartup]_vars

(***************************************************************************)
(* C31..C34: the lifecycle of the collectors                               *)
(***************************************************************************)
\* C31: a collector that is not running has no active polling timer
\* (intervalId is null), whatever the interleaving of start(), stop() and the
\* initial collection start() awaits; so no collector has two active timers
C31_NoTimerWhenStopped ==
  \A name \in CollectorNames :
    /\ ~collectors[name].isRunning
         => (~collectors[name].intervalId /\ collectors[name].timers = 0)
    /\ collectors[name].timers <= 1

\* C32: the 'collector:started' and 'collector:stopped' events of a collector
\* alternate, beginning with 'collector:started', and after the latest of them
\* the collector is running exactly when it was 'collector:started'
C32_EventsAlternate ==
  \A name \in CollectorNames :
    LET events == collectors[name].events IN
      /\ \A i \in 1..Len(events) :
           events[i] = IF i % 2 = 1 THEN "started" ELSE "stopped"
      /\ events # <<>>
           => (collectors[name].isRunning <=> events[Len(events)] = "started")

\* the collections of c that a start() is awaiting
AwaitedByStart(c) ==
  Cardinality({i \in 1..Len(c.pending) : c.pending[i] = "start"})

\* the awaited doCollect of a collect() of the collector is over in this step
Completed(name) ==
  Len(collectors'[name].pending) < Len(collectors[name].pending)

C33_WitnessNotRunning ==
  /\ ~collectors["DeFiLlama"].isRunning
  /\ collectors["DeFiLlama"].timers > 0
  /\ collectors["DeFiLlama"].doCollectCalls < MaxCollections

\* C34: in stream mode the attempt counter never passes maxReconnectAttempts;
\* when it reaches it the collector is stopped; a connection is started only
\* for a running collector, so none after stop(); and a connection that
\* succeeds resets the counter to 0
C34_RetriesTerminate ==
  [][/\ collectors'["Twitter"].reconnectAttempts <= MaxReconnectAttempts
     /\ collectors'["Twitter"].reconnectAttempts >= MaxReconnectAttempts
          => ~collectors'["Twitter"].isRunning
     /\ collectors'["Twitter"].connects > collectors["Twitter"].connects
          => (collectors["Twitter"].isRunning /\ collectors'["Twitter"].isRunning)
     /\ (collectors["Twitter"].stream # "open" /\ collectors'["Twitter"].stream = "open")
          => collectors'["Twitter"].reconnectAttempts = 0]_vars

(***************************************************************************)
(* C35, C36: delivery and the stored alert records                         *)
(***************************************************************************)
\* the 'alert:sent' / 'alert:failed' events published for a sendMessage call
EventsOf(call) ==
  {e \in deliveryEvents : e.alertId = call.alertId /\ e.chatId = call.chatId}

\* the awaited sendMessage of the call has settled
Settled(call) ==
  \A s \in sending :
    ~(s.alert.id = call.alertId /\ config.allowedChatIds[s.at] = call.chatId)

\* C35: for every chat sendAlert sends to, exactly one of 'alert:sent' and
\* 'alert:failed' is published; 'alert:sent' is published, and a record of the
\* alert for that chat is stored, exactly when sendMessage succeeded; and after
\* a failure for the first chat the alert is still sent to the second
C35_OneEventPerChat ==
  [][/\ \A call \in sendCalls' :
          (Settled(call))' =>
            /\ Cardinality((EventsOf(call))') = 1
            /\ \A e \in (EventsOf(call))' :
                 /\ e.event = "alert:sent" <=> e.error # "sendMessage"
                 /\ e.error # "sendMessage"
                      <=> \E row \in alerts' :
                            row.id = call.alertId /\ row.chat_id = call.chatId
     /\ \A e \in deliveryEvents' \ deliveryEvents :
          (/\ e.event = "alert:failed"
           /\ e.chatId = config.allowedChatIds[1]
           /\ \E call \in sendCalls :
                /\ call.alertId = e.alertId
                /\ shouldReceiveAlert(user_settings, "chat2", call.category))
            => \E call \in sendCalls' :
                 call.alertId = e.alertId /\ call.chatId = "chat2"]_vars
\* the publications of an alert on 'signal:alert' that a stored row belongs to
ApprovalsOf(row) ==
  {i \in 1..Len(signalAlert) :
     /\ signalAlert[i].alert.id = row.id
     /\ generateDeduplicationKey(signalAlert[i].alert) = row.deduplication_key}

ReadyForCollectors ==
  /\ db = "open"
  /\ \A channel \in {"collector:tvl", "collector:tweet", "collector:price",
                      "signal:alert"} : listeners[channel] # <<>>

CycleUpserts ==
  {upsertLog'[k] : k \in (Len(upsertLog) + 1)..Len(upsertLog')}

\* C38: when a poll cycle publishes 'collector:tvl', its upserts are in the
\* table the analysis reads, and every change the analysis computes has as its
\* current value the value a upsert of this same cycle stored; a cycle that
\* fails publishes nothing: no analysis runs and no alert is handed on
C38_CycleSnapshot ==
  [][/\ Collected =>
          /\ \A stored \in CycleUpserts :
               /\ stored.slug \in DOMAIN protocol_state'
               /\ protocol_state'[stored.slug].last_tvl = stored.tvl
               /\ protocol_state'[stored.slug].last_checked_at = stored.time
          /\ tvlAnalysis'.called
          /\ \A i \in 1..Len(tvlAnalysis'.changes) :
               \E stored \in CycleUpserts :
                 /\ stored.slug = tvlAnalysis'.changes[i].slug
                 /\ stored.tvl = tvlAnalysis'.changes[i].currentTvl
     /\ collectors'["DeFiLlama"].totalErrors > collectors["DeFiLlama"].totalErrors
          => UNCHANGED <<tvlAnalysis, tvlPending, signalAlert, upsertLog, protocol_state>>]_vars

(***************************************************************************)
(* C39: the SettingsRepository                                             *)
(***************************************************************************)
\* the settings of the chat before the call: those of a chat never seen are
\* all six categories, not paused
SettingsBefore(chatId) ==
  IF chatId \in DOMAIN user_settings THEN user_settings[chatId]
  ELSE [subscribed_categories |->
          <<"INCENTIVE", "TVL_CHANGE", "TOKEN_EVENT", "GOVERNANCE", "SECURITY",
            "NARRATIVE">>,
        is_paused |-> FALSE]

\* C39: a call works on the settings the chat had, a chat first seen having all
\* six categories and no pause; no list names a category twice; subscribe
\* returns true exactly when the category was absent and leaves it present,
\* unsubscribe returns true exactly when it was present and leaves it absent,
\* neither touches another category or the pause flag; setPaused leaves the
\* list alone; the settings of the other chats stay as they are
C39_SettingsCalls ==
  [][commands' = commands + 1 =>
       LET call == settingsCall'
           before == SettingsBefore(call.chatId)
           after == user_settings'[call.chatId]
       IN /\ call.chatId \in DOMAIN user_settings'
          /\ \A chatId \in DOMAIN user_settings' :
               /\ \A i, j \in 1..Len(user_settings'[chatId].subscribed_categories) :
                    user_settings'[chatId].subscribed_categories[i]
                      = user_settings'[chatId].subscribed_categories[j] => i = j
               /\ chatId # call.chatId
                    => /\ chatId \in DOMAIN user_settings
                       /\ user_settings'[chatId] = user_settings[chatId]
          /\ call.op = "subscribe" =>
               /\ call.returned = ~Includes(before.subscribed_categories, call.category)
               /\ Includes(after.subscribed_categories, call.category)
               /\ \A category \in AlertCategory \ {call.category} :
                    Includes(after.subscribed_categories, category)
                      = Includes(before.subscribed_categories, category)
               /\ after.is_paused = before.is_paused
          /\ call.op = "unsubscribe" =>
               /\ call.returned = Includes(before.subscribed_categories, call.category)
               /\ ~Includes(after.subscribed_categories, call.category)
               /\ \A category \in AlertCategory \ {call.category} :
                    Includes(after.subscribed_categories, category)
                      = Includes(before.subscribed_categories, category)
               /\ after.is_paused = before.is_paused
          /\ call.op = "setPaused" =>
               after.subscribed_categories = before.subscribed_categories]_vars

\* chat1 has left a category and joined it again, so that it stands last in
\* its list; chat2 was first seen by a subscribe that returned false
C39_Witness ==
  /\ settingsCall = [op |-> "subscribe", chatId |-> "chat2", category |-> "SECURITY",
                     returned |-> FALSE]
  /\ "chat1" \in DOMAIN user_settings
  /\ Len(user_settings["chat1"].subscribed_categories) = 6
  /\ user_settings["chat1"].subscribed_categories[6] = "TVL_CHANGE"
  /\ user_settings["chat2"] = DefaultSettings

\* a subscribe has returned true
C39_WitnessSubscribed ==
  /\ settingsCall.op = "subscribe"
  /\ settingsCall.returned

====
